---- MODULE Spec2Model ----
(***************************************************************************)
(* Model of the AI-notes sandboxed filesystem bridge (Electron main        *)
(* process IPC handlers), of the workspace state kept by the renderer     *)
(* (React App component and the legacy WorkspaceManager) and of the       *)
(* renderer's file tree (React FileTree and the legacy FileTreeManager).  *)
(*                                                                         *)
(* Path strings are sequences of one-character strings, so that the        *)
(* String.prototype.startsWith tests of the code are computed character    *)
(* by character.  The empty sequence stands for every falsy JS value       *)
(* ('' / null / undefined): the code only ever tests these with `!x`.     *)
(***************************************************************************)
EXTENDS Integers, Sequences, FiniteSets, TLC

VARIABLES
  store,      \* main process: the electron-store config (persisted)
  disk,       \* the filesystem
  req,        \* bridge-level caller: the IPC request being answered
  res,        \* ... the value its handler returned
  fsCalls,    \* ... the fs calls the handler made, in order
  accepted,   \* history: the directories selectRootDirectory has accepted
  saves,      \* history: the number of fs:saveFile calls so far
  rootDirectory, \* renderer: the root directory state
  openFiles,  \* renderer: the open-file list, in tab order
  activeFile, \* renderer: the active file's path, or Null
  tasks,      \* renderer: the IPC requests awaiting their answer, oldest first
  startup,    \* renderer: where the initial load stands
  evt,        \* history: the last renderer operation and its argument
  restarts,   \* history: the number of application restarts
  impl,       \* which renderer runs the workspace: "react" or "legacy"
  scope,      \* the extent of the run: files offered, handlers in flight, restarts
  expandedFolders, \* file tree: the in-memory set of expanded folders
  rootItems,  \* React FileTree: the root directory's listing
  loading,    \* React FileTree: the root listing is being loaded
  folders,    \* React FolderItem instances: children, loading, error by folder
  dom,        \* legacy FileTreeManager: the child nodes of #file-tree
  fetches,    \* history: the getDirectoryContents requests sent, by directory
  editors,    \* renderer: the editor of each file (React state / legacy textarea)
  typed       \* history: the text last typed into each file's editor since it was opened

fsVars == <<store, disk, req, res, fsCalls, accepted, saves>>
wsVars == <<rootDirectory, openFiles, activeFile, tasks, startup, evt, restarts, impl, scope>>
treeVars == <<expandedFolders, rootItems, loading, folders, dom, fetches>>
viewVars == <<editors, typed>>
vars == <<store, disk, req, res, fsCalls, accepted, saves,
          rootDirectory, openFiles, activeFile, tasks, startup, evt, restarts, impl, scope,
          expandedFolders, rootItems, loading, folders, dom, fetches, editors, typed>>

\* ------------------------------------------------------------------ bounds

\* longest candidate path, in segments, handed to a filesystem handler
MaxSegs == 3

\* fs:saveFile calls a bridge-level caller makes in one run
MaxSaves == 1

\* async renderer handlers waiting for a response at the same time
MaxTasks == 2

\* entries of the open-file list beyond which no further open is started
MaxOpenFiles == 3

\* application restarts in one run
MaxRestarts == 1

\* getDirectoryContents requests sent for one directory in one run
MaxFetches == 2

\* entries of the directory whose listing is sorted
MaxEntries == 3

\* ----------------------------------------------------------------- strings

Null == <<>>

SEP == "/"

\* String.prototype.startsWith
StartsWith(s, p) == /\ Len(p) <= Len(s)
                    /\ SubSeq(s, 1, Len(p)) = p

\* the segments of a path string between separators (empty segments kept)
RECURSIVE SplitFrom(_, _, _)
SplitFrom(s, i, cur) ==
  IF i > Len(s) THEN <<cur>>
  ELSE IF s[i] = SEP THEN <<cur>> \o SplitFrom(s, i + 1, <<>>)
  ELSE SplitFrom(s, i + 1, Append(cur, s[i]))

Split(s) == SplitFrom(s, 1, <<>>)

\* segments joined with the separator
RECURSIVE JoinSegs(_)
JoinSegs(segs) ==
  IF Len(segs) = 0 THEN <<>>
  ELSE IF Len(segs) = 1 THEN segs[1]
  ELSE segs[1] \o <<SEP>> \o JoinSegs(Tail(segs))

DOT == <<".">>
DOTDOT == <<".", ".">>

\* posix normalizeString: drop empty and "." segments, let ".." remove the
\* segment before it; above the root ".." is dropped (allowAbove = FALSE)
\* and in a relative path it is kept.
RECURSIVE NormalizeSegs(_, _, _)
NormalizeSegs(segs, acc, allowAbove) ==
  IF Len(segs) = 0 THEN acc
  ELSE LET s == Head(segs)
           rest == Tail(segs)
       IN IF s = <<>> \/ s = DOT THEN NormalizeSegs(rest, acc, allowAbove)
          ELSE IF s = DOTDOT
            THEN IF Len(acc) > 0 /\ acc[Len(acc)] # DOTDOT
                   THEN NormalizeSegs(rest, SubSeq(acc, 1, Len(acc) - 1), allowAbove)
                 ELSE IF allowAbove
                   THEN NormalizeSegs(rest, Append(acc, s), allowAbove)
                 ELSE NormalizeSegs(rest, acc, allowAbove)
          ELSE NormalizeSegs(rest, Append(acc, s), allowAbove)

\* path.normalize (posix): "." for the empty relative path, a trailing
\* separator is kept, an absolute path keeps its leading separator.
normalize(p) ==
  IF Len(p) = 0 THEN DOT
  ELSE LET isAbsolute == p[1] = SEP
           trailing == p[Len(p)] = SEP
           body == JoinSegs(NormalizeSegs(Split(p), <<>>, ~isAbsolute))
           body2 == IF Len(body) = 0 /\ ~isAbsolute THEN DOT ELSE body
           body3 == IF Len(body2) > 0 /\ trailing THEN body2 \o <<SEP>> ELSE body2
       IN IF isAbsolute THEN <<SEP>> \o body3 ELSE body3

\* path.dirname (posix) of an absolute path
dirname(p) ==
  LET segs == Split(p)
      n == Len(segs)
      d == JoinSegs(SubSeq(segs, 1, n - 1))
  IN IF n <= 1 THEN DOT ELSE IF Len(d) = 0 THEN <<SEP>> ELSE d

\* path.join(dir, name)
join(dir, name) == normalize(dir \o <<SEP>> \o name)

\* --------------------------------------------------------------- the paths

Str_data == <<"d", "a", "t", "a">>
Str_data2 == <<"d", "a", "t", "a", "2">>
Str_sub == <<"s", "u", "b">>
Str_ro == <<"r", "o">>
Str_a == <<"a">>
Str_b == <<"b">>
Str_x == <<"x">>

\* an absolute path string from its segments
Path(segs) == <<SEP>> \o JoinSegs(segs)

P_root == <<SEP>>
P_data == Path(<<Str_data>>)
P_data2 == Path(<<Str_data2>>)
P_ro == Path(<<Str_ro>>)
P_data_sub == Path(<<Str_data, Str_sub>>)
P_data_a == Path(<<Str_data, Str_a>>)
P_data_b == Path(<<Str_data, Str_b>>)
P_data_sub_a == Path(<<Str_data, Str_sub, Str_a>>)
P_data2_x == Path(<<Str_data2, Str_x>>)
P_data2_sub == Path(<<Str_data2, Str_sub>>)
\* a file the tree still shows after it was deleted from the disk
P_data_gone == Path(<<Str_data, Str_x>>)

\* the segment names candidate paths are built from
Segs == {Str_data, Str_data2, Str_sub, DOTDOT}

RECURSIVE SegSeqs(_)
SegSeqs(n) ==
  IF n = 0 THEN {<<>>}
  ELSE LET shorter == SegSeqs(n - 1)
       IN shorter \cup {Append(q, s) : q \in {r \in shorter : Len(r) = n - 1}, s \in Segs}

\* the path strings a caller may hand to a filesystem handler
Candidates == {Path(q) : q \in SegSeqs(MaxSegs) \ {<<>>}}

\* -------------------------------------------------------------- the disk

\* The disk: the directories, and the files with their text.  A path is
\* looked up by its normalized form (no symbolic links are modelled).
InitialDisk ==
  [dirs  |-> {P_root, P_data, P_data_sub, P_data2, P_ro},
   files |-> (P_data_a :> "text_a") @@ (P_data_b :> "text_b")
             @@ (P_data_sub_a :> "text_sub_a") @@ (P_data2_x :> "text_x")
             @@ (P_data2_sub :> "secret")]

\* directories the write probe of the folder picker cannot write to
ReadOnlyDirs == {P_ro}

IsDir(dk, t) == t \in dk.dirs
IsFile(dk, t) == t \in DOMAIN dk.files
Exists(dk, t) == IsDir(dk, t) \/ IsFile(dk, t)

Parent(t) == IF t = P_root THEN P_root ELSE dirname(t)

\* the names fs.readdir finds in directory t
ChildNames(dk, t) ==
  {Split(c)[Len(Split(c))] : c \in {e \in (dk.dirs \cup DOMAIN dk.files) : e # P_root /\ Parent(e) = t}}

\* ------------------------------------------------- main process: results

NoError == ""
ErrNoRoot == "No root directory set"
ErrTraversal == "Path traversal attempt detected"
ErrNotAFile == "Not a file"
ErrNoFile == "File does not exist"
ErrPermission == "Permission Error"
ErrSelection == "Selection Error"

\* A handler's outcome: the value returned over IPC (res), the filesystem
\* calls it made in order (calls), the disk and the config store after it.
Outcome(r, calls, dk, st) == [res |-> r, calls |-> calls, disk |-> dk, store |-> st]

Failure(msg) == [error |-> msg, content |-> "", contents |-> <<>>, directory |-> Null,
                 canceled |-> FALSE, value |-> <<>>, thrown |-> FALSE]
Success == Failure(NoError)

\* an exception with message msg raised inside a handler
Thrown(msg) == [Failure(msg) EXCEPT !.thrown = TRUE]

\* a handler without its outer try / catch: the exception reaches the caller
Catch_rethrow(o) == o

\* the handler's outer catch (error): return { error: error.message }
Catch(o) == IF o.res.thrown THEN [o EXCEPT !.res = Failure(o.res.error)] ELSE o

\* --------------------------------------------- main process: path guard

\* The containment test of the three fs handlers: both paths through
\* path.normalize, then String.prototype.startsWith.
GuardPasses(requestedPath, rootDir) ==
  LET normalizedRequestedPath == normalize(requestedPath)
      normalizedRootPath == normalize(rootDir)
  IN StartsWith(normalizedRequestedPath, normalizedRootPath)

\* ------------------------------------------ main process: listing order

Alphabet == <<"2", "a", "b", "d", "o", "r", "s", "t", "u", "x", ".">>

Lower(c) == IF c = "A" THEN "a" ELSE IF c = "B" THEN "b" ELSE c

CharRank(c) == CHOOSE i \in 1..Len(Alphabet) : Alphabet[i] = Lower(c)

\* a.localeCompare(b, undefined, {sensitivity: 'base'}) < 0, = 0
RECURSIVE NameLess(_, _)
NameLess(a, b) ==
  IF Len(b) = 0 THEN FALSE
  ELSE IF Len(a) = 0 THEN TRUE
  ELSE IF CharRank(a[1]) < CharRank(b[1]) THEN TRUE
  ELSE IF CharRank(a[1]) > CharRank(b[1]) THEN FALSE
  ELSE NameLess(Tail(a), Tail(b))

\* a comparator that puts files before directories
EntryBefore_filesFirst(a, b) ==
  IF a.isDirectory /\ ~b.isDirectory THEN FALSE
  ELSE IF ~a.isDirectory /\ b.isDirectory THEN TRUE
  ELSE NameLess(a.name, b.name)

\* the comparator of contents.sort: a before b
EntryBefore(a, b) ==
  IF a.isDirectory /\ ~b.isDirectory THEN TRUE
  ELSE IF ~a.isDirectory /\ b.isDirectory THEN FALSE
  ELSE NameLess(a.name, b.name)

\* stable insertion of e into a sorted list
RECURSIVE InsertSorted(_, _)
InsertSorted(e, sorted) ==
  IF Len(sorted) = 0 THEN <<e>>
  ELSE IF EntryBefore(e, Head(sorted)) THEN <<e>> \o sorted
  ELSE <<Head(sorted)>> \o InsertSorted(e, Tail(sorted))

\* Array.prototype.sort (stable) with EntryBefore
RECURSIVE SortContents(_)
SortContents(list) ==
  IF Len(list) = 0 THEN <<>>
  ELSE InsertSorted(list[Len(list)], SortContents(SubSeq(list, 1, Len(list) - 1)))

\* the orders fs.readdir may return the names of a set in
RECURSIVE Orders(_)
Orders(S) ==
  IF S = {} THEN {<<>>}
  ELSE UNION {{<<e>> \o q : q \in Orders(S \ {e})} : e \in S}

\* ----------------------------------------------------- path resolution

Child(dir, name) == IF dir = P_root THEN dir \o name ELSE dir \o <<SEP>> \o name

\* The operating system's lookup of a path string, segment by segment from
\* cur: every segment, ".." included, is looked up in a directory.
\* err is "" and at the place reached (which need not exist), or err is
\* ENOENT / ENOTDIR.
RECURSIVE Walk(_, _, _)
Walk(dk, segs, cur) ==
  IF Len(segs) = 0 THEN [err |-> NoError, at |-> cur]
  ELSE IF IsFile(dk, cur) THEN [err |-> "ENOTDIR", at |-> cur]
  ELSE IF ~IsDir(dk, cur) THEN [err |-> "ENOENT", at |-> cur]
  ELSE LET s == Head(segs)
       IN IF s = <<>> \/ s = DOT THEN Walk(dk, Tail(segs), cur)
          ELSE IF s = DOTDOT THEN Walk(dk, Tail(segs), Parent(cur))
          ELSE Walk(dk, Tail(segs), Child(cur, s))

Lookup(dk, p) == Walk(dk, Split(p), P_root)

\* fs.mkdir(p, {recursive: true}): the missing directories of p are made
\* one after the other; a file in the way is EEXIST at the end of p and
\* ENOTDIR before it.
RECURSIVE MkdirWalk(_, _, _)
MkdirWalk(dk, segs, cur) ==
  IF IsFile(dk, cur)
    THEN [err |-> IF Len(segs) = 0 THEN "EEXIST" ELSE "ENOTDIR", disk |-> dk]
  ELSE LET made == [dk EXCEPT !.dirs = @ \cup {cur}]
       IN IF Len(segs) = 0 THEN [err |-> NoError, disk |-> made]
          ELSE LET s == Head(segs)
               IN IF s = <<>> \/ s = DOT THEN MkdirWalk(made, Tail(segs), cur)
                  ELSE IF s = DOTDOT THEN MkdirWalk(made, Tail(segs), Parent(cur))
                  ELSE MkdirWalk(made, Tail(segs), Child(cur, s))

MkdirP(dk, p) == MkdirWalk(dk, Split(p), P_root)

\* -------------------------------------------- main process: fs handlers

\* ipcMain.handle('fs:getDirectoryContents'); order is what fs.readdir
\* returned (a sequence of the names of the directory).
FsGetDirectoryContents(st, dk, directoryPath, order) ==
  LET rootDir == st.rootDirectory
      found == Lookup(dk, directoryPath)
      entry(name) == [name |-> name,
                      path |-> join(directoryPath, name),
                      isDirectory |-> IsDir(dk, Child(found.at, name))]
      stats == [i \in 1..Len(order) |-> "stat"]
  IN Catch(
     IF rootDir = Null THEN Outcome(Failure(ErrNoRoot), <<>>, dk, st)
     ELSE IF ~GuardPasses(directoryPath, rootDir)
       THEN Outcome(Failure(ErrTraversal), <<>>, dk, st)
     ELSE IF found.err # NoError THEN Outcome(Thrown(found.err), <<"readdir">>, dk, st)
     ELSE IF IsFile(dk, found.at) THEN Outcome(Thrown("ENOTDIR"), <<"readdir">>, dk, st)
     ELSE IF ~IsDir(dk, found.at) THEN Outcome(Thrown("ENOENT"), <<"readdir">>, dk, st)
     ELSE Outcome([Success EXCEPT !.contents =
                     SortContents([i \in 1..Len(order) |-> entry(order[i])])],
                  <<"readdir">> \o stats, dk, st))

\* fs:getDirectoryContents when an entry fs.readdir returned is gone by
\* the time it is stat-ed: fs.stat throws and Promise.all rejects
FsGetDirectoryContents_statFails(st, dk, directoryPath, order) ==
  LET listed == FsGetDirectoryContents(st, dk, directoryPath, order)
  IN IF listed.res.error # NoError \/ Len(order) = 0 THEN listed
     ELSE Catch(Outcome(Thrown("ENOENT"), listed.calls, dk, st))

\* ipcMain.handle('fs:readFile')
FsReadFile(st, dk, filePath) ==
  LET rootDir == st.rootDirectory
      found == Lookup(dk, filePath)
  IN Catch(
     IF rootDir = Null THEN Outcome(Failure(ErrNoRoot), <<>>, dk, st)
     ELSE IF ~GuardPasses(filePath, rootDir)
       THEN Outcome(Failure(ErrTraversal), <<>>, dk, st)
     ELSE IF found.err = "ENOENT" THEN Outcome(Failure(ErrNoFile), <<"stat">>, dk, st)
     ELSE IF found.err # NoError THEN Outcome(Thrown(found.err), <<"stat">>, dk, st)
     ELSE IF IsDir(dk, found.at) THEN Outcome(Failure(ErrNotAFile), <<"stat">>, dk, st)
     ELSE IF ~IsFile(dk, found.at) THEN Outcome(Failure(ErrNoFile), <<"stat">>, dk, st)
     ELSE Outcome([Success EXCEPT !.content = dk.files[found.at]],
                  <<"stat", "readFile">>, dk, st))

\* fs:saveFile past its containment test: mkdir -p of the parent (EEXIST
\* ignored), then a direct write; what fs throws is caught by the handler
FsSaveFile_unguarded(st, dk, filePath, content) ==
  LET fileDir == dirname(filePath)
      mk == MkdirP(dk, fileDir)
      found == Lookup(mk.disk, filePath)
  IN IF mk.err \notin {NoError, "EEXIST"}
       THEN Outcome(Thrown(mk.err), <<"mkdir">>, mk.disk, st)
     ELSE IF found.err # NoError
       THEN Outcome(Thrown(found.err), <<"mkdir", "writeFile">>, mk.disk, st)
     ELSE IF IsDir(mk.disk, found.at)
       THEN Outcome(Thrown("EISDIR"), <<"mkdir", "writeFile">>, mk.disk, st)
     ELSE IF Parent(found.at) \in ReadOnlyDirs
       THEN Outcome(Thrown("EACCES"), <<"mkdir", "writeFile">>, mk.disk, st)
     ELSE Outcome(Success, <<"mkdir", "writeFile">>,
                  [mk.disk EXCEPT !.files = (found.at :> content) @@ @], st)

\* a save that creates the parent directory before the containment test
FsSaveFile_mkdirFirst(st, dk, filePath, content) ==
  LET rootDir == st.rootDirectory
      mk == MkdirP(dk, dirname(filePath))
  IN IF rootDir = Null THEN Outcome(Failure(ErrNoRoot), <<>>, dk, st)
     ELSE IF ~GuardPasses(filePath, rootDir)
       THEN Outcome(Failure(ErrTraversal), <<"mkdir">>, mk.disk, st)
     ELSE Catch(FsSaveFile_unguarded(st, dk, filePath, content))

FsSaveFile(st, dk, filePath, content) ==
  LET rootDir == st.rootDirectory
  IN IF rootDir = Null THEN Outcome(Failure(ErrNoRoot), <<>>, dk, st)
     ELSE IF ~GuardPasses(filePath, rootDir)
       THEN Outcome(Failure(ErrTraversal), <<>>, dk, st)
     ELSE Catch(FsSaveFile_unguarded(st, dk, filePath, content))

\* a folder picker that stores the chosen folder before probing it
DialogOpenDirectory_storeFirst(st, dk, choice) ==
  IF choice = Null THEN Outcome([Success EXCEPT !.canceled = TRUE], <<>>, dk, st)
  ELSE IF choice \in ReadOnlyDirs \/ ~IsDir(dk, choice)
    THEN Outcome([Failure(ErrPermission) EXCEPT !.canceled = FALSE], <<"writeFile">>, dk,
                 [st EXCEPT !.rootDirectory = choice])
  ELSE Outcome([Success EXCEPT !.directory = choice], <<"writeFile", "unlink">>, dk,
               [st EXCEPT !.rootDirectory = choice])

\* ipcMain.handle('dialog:openDirectory'); choice is what the OS dialog
\* returned: Null when the user cancelled, else filePaths[0].  The write
\* probe creates and deletes <dir>/.notes-test.
DialogOpenDirectory(st, dk, choice) ==
  IF choice = Null THEN Outcome([Success EXCEPT !.canceled = TRUE], <<>>, dk, st)
  ELSE IF choice \in ReadOnlyDirs \/ ~IsDir(dk, choice)
    THEN Outcome([Failure(ErrPermission) EXCEPT !.canceled = FALSE], <<"writeFile">>, dk, st)
  ELSE Outcome([Success EXCEPT !.directory = choice], <<"writeFile", "unlink">>, dk,
               [st EXCEPT !.rootDirectory = choice])

\* ipcMain.handle('config:set'): store.set(key, value) for any key
ConfigSet(st, dk, key, value) ==
  Outcome(Success, <<>>, dk, [st EXCEPT ![key] = value])

\* ipcMain.handle('config:get')
ConfigGet(st, dk, key) ==
  Outcome([Success EXCEPT !.value = st[key]], <<>>, dk, st)

\* ------------------------------------------------- the persisted config

EmptyStore == [rootDirectory |-> Null, openFiles |-> <<>>, activeFile |-> Null,
               expandedFolders |-> {}]

\* ------------------------------------------------- renderer: workspace

\* the files the sidebar offers / the legacy bridge passes to openFile
WsFiles == {P_data_a, P_data_b, P_data_sub_a, P_data2_x, P_data_gone}

\* A run is sequential (one user-started handler at a time) over the three
\* files of /data, or concurrent (handlers overlap) over two of them, or
\* restarted (the application is quit and launched again) with both folders
\* on offer and a file of each, or vanished (one of the two files on offer
\* is no longer on the disk).
NoScope == [files |-> {}, dirs |-> {}, tasks |-> 0, open |-> 0, restarts |-> 0]
Sequential == [files |-> {P_data_a, P_data_b, P_data_sub_a}, dirs |-> {P_data}, tasks |-> 1,
               open |-> MaxOpenFiles, restarts |-> 0]
Concurrent == [files |-> {P_data_a, P_data_b}, dirs |-> {P_data}, tasks |-> MaxTasks,
               open |-> MaxOpenFiles - 1, restarts |-> 0]
Restarted == [files |-> {P_data_a, P_data2_x}, dirs |-> {P_data, P_data2}, tasks |-> 1,
              open |-> MaxOpenFiles - 1, restarts |-> MaxRestarts]
Vanished == [files |-> {P_data_a, P_data_gone}, dirs |-> {P_data}, tasks |-> 1,
             open |-> MaxOpenFiles - 1, restarts |-> 0]
Scopes == {Sequential, Concurrent, Restarted, Vanished}

NoEvent == [op |-> "none", path |-> Null]
Event(op, path) == [op |-> op, path |-> path]
\* what evt holds after a step that resumes a suspended handler
Resumed == Event("resumed", Null)

StartupIdle == [pc |-> "start", rootDir |-> Null, validFiles |-> <<>>]

\* the folders of the disk a file tree can show below its root
TreeFolders == {P_data, P_data2, P_ro, P_data_sub}

\* the directories a listing can be asked for
TreeDirs == TreeFolders \cup {P_root}

\* a FolderItem's useState initial values; mounted tells whether React
\* currently renders an instance for the folder
NotMounted == [mounted |-> FALSE, children |-> <<>>, loading |-> FALSE, error |-> NoError]

\* no editor is rendered for a file / nothing was typed into it
NoEditor == [mounted |-> FALSE, content |-> "", isModified |-> FALSE]
NotTyped == "(nothing typed)"

\* the renderer as React mounts it (useState initial values), the legacy
\* page with an empty #file-tree
InitRenderer ==
  /\ editors = [p \in WsFiles |-> NoEditor]
  /\ typed = [p \in WsFiles |-> NotTyped]
  /\ rootDirectory = Null
  /\ openFiles = <<>>
  /\ activeFile = Null
  /\ startup = StartupIdle
  /\ evt = NoEvent
  /\ restarts = 0
  /\ expandedFolders = {}
  /\ rootItems = <<>>
  /\ loading = FALSE
  /\ folders = [p \in TreeFolders |-> NotMounted]
  /\ dom = <<>>
  /\ fetches = [p \in TreeDirs |-> 0]

\* --------------------------------- the bridge driven by an arbitrary caller

\* what the OS folder picker can return as filePaths[0]
PickerDirs == {P_data, P_data2, P_ro}

\* the paths handed to the fs handlers
FsCandidates == Candidates \cup DOMAIN InitialDisk.files

\* the paths handed to fs:saveFile: a new file under /data, an existing
\* file of the sibling /data2, a new file of /data2 reached through "..",
\* a file below a file, a file of a read-only directory, a file reached
\* through a directory that does not exist yet
SaveCandidates ==
  {Path(<<Str_data, Str_sub, Str_b>>), P_data2_x,
   Path(<<Str_data, DOTDOT, Str_data2, Str_b>>),
   Path(<<Str_data, Str_b, Str_x>>), Path(<<Str_ro, Str_b>>),
   Path(<<Str_data, Str_x, DOTDOT, Str_b>>)}

\* the values a caller stores under rootDirectory
ConfigValues == {P_root}

\* the texts a caller saves
Texts == {"edited"}

Idle == [op |-> "idle", path |-> Null, key |-> ""]

Request(op, path, key) == [op |-> op, path |-> path, key |-> key]

\* the handler's outcome becomes the state after the call
Handled(r, o) ==
  /\ req' = r
  /\ res' = o.res
  /\ fsCalls' = o.calls
  /\ disk' = o.disk
  /\ store' = o.store
  /\ accepted' = IF r.op = "dialog:openDirectory" /\ o.res.directory # Null
                   THEN accepted \cup {o.res.directory} ELSE accepted
  /\ saves' = IF r.op = "fs:saveFile" THEN saves + 1 ELSE saves
  /\ UNCHANGED wsVars
  /\ UNCHANGED treeVars
  /\ UNCHANGED viewVars

CallGetDirectoryContents ==
  /\ req.op = "idle"
  /\ \E p \in FsCandidates :
    \E order \in Orders(ChildNames(disk, Lookup(disk, p).at)) :
      \/ Handled(Request("fs:getDirectoryContents", p, ""),
                 FsGetDirectoryContents(store, disk, p, order))
      \/ Handled(Request("fs:getDirectoryContents", p, ""),
                 FsGetDirectoryContents_statFails(store, disk, p, order))

CallReadFile ==
  /\ req.op = "idle"
  /\ \E p \in FsCandidates :
    Handled(Request("fs:readFile", p, ""), FsReadFile(store, disk, p))

CallSaveFile ==
  /\ req.op = "idle"
  /\ saves < MaxSaves
  /\ \E p \in SaveCandidates, c \in Texts :
       Handled(Request("fs:saveFile", p, ""), FsSaveFile(store, disk, p, c))

CallOpenDirectory ==
  /\ req.op = "idle"
  /\ \E choice \in PickerDirs \cup {Null} :
    Handled(Request("dialog:openDirectory", choice, ""),
            DialogOpenDirectory(store, disk, choice))

CallConfigSet ==
  /\ req.op = "idle"
  /\ \E key \in {"rootDirectory"}, v \in ConfigValues :
    Handled(Request("config:set", v, key), ConfigSet(store, disk, key, v))

CallConfigGet ==
  /\ req.op = "idle"
  /\ \E key \in {"rootDirectory", "activeFile"} :
    Handled(Request("config:get", Null, key), ConfigGet(store, disk, key))

\* the response reaches the caller
Respond ==
  /\ req.op # "idle"
  /\ req' = Idle
  /\ res' = Success
  /\ fsCalls' = <<>>
  /\ UNCHANGED <<store, disk, accepted, saves>>
  /\ UNCHANGED wsVars
  /\ UNCHANGED treeVars
  /\ UNCHANGED viewVars

InitFs ==
  /\ store = EmptyStore
  /\ disk = InitialDisk
  /\ req = Idle
  /\ res = Success
  /\ fsCalls = <<>>
  /\ accepted = {}
  /\ saves = 0
  /\ impl = "react"
  /\ scope = NoScope
  /\ tasks = <<>>
  /\ InitRenderer

NextFs ==
  \/ CallGetDirectoryContents
  \/ CallReadFile
  \/ CallSaveFile
  \/ CallOpenDirectory
  \/ CallConfigSet
  \/ CallConfigGet
  \/ Respond

SpecFs == InitFs /\ [][NextFs]_vars

\* ===================================================================
\* The renderer's workspace
\* ===================================================================

Impls == {"react", "legacy"}

\* String.prototype.replace(/\\/g, '/')
ReplaceBackslashes(s) == [i \in 1..Len(s) |-> IF s[i] = "\\" THEN SEP ELSE s[i]]

\* the renderer-side containment test: backslashes to slashes, then startsWith
InRootByPrefix(filePath, rootDir) ==
  StartsWith(ReplaceBackslashes(filePath), ReplaceBackslashes(rootDir))

\* an entry of the open-file list (its name is the last segment of its path)
OpenFile(path, content, loaded) ==
  [path |-> path, content |-> content, loaded |-> loaded, modified |-> FALSE]

PathsOf(files) == [i \in 1..Len(files) |-> files[i].path]

IsOpen(files, p) == \E i \in 1..Len(files) : files[i].path = p

\* files.filter(file => file.path !== filePath)
WithoutPath(files, p) == SelectSeq(files, LAMBDA f : f.path # p)

FirstOrNull(paths) == IF Len(paths) > 0 THEN paths[1] ELSE Null

\* savedOpenFiles.filter(path => path.startsWith(rootDir))
ValidFiles(savedOpenFiles, rootDir) ==
  SelectSeq(savedOpenFiles, LAMBDA p : InRootByPrefix(p, rootDir))

\* openFiles.find(file => file.path === p)
FileAt(files, p) == files[CHOOSE k \in 1..Len(files) : files[k].path = p]

\* what an editor is created with: TextEditor's useState(file.content) and
\* useState(file.modified), createTextEditor's textarea of fileObject.content
EditorOf(file) == [mounted |-> TRUE, content |-> file.content, isModified |-> file.modified]

\* React ContentArea renders one editor, for the active file's entry; the
\* editor's effect resets its content and isModified when the entry it is
\* given is another object than before
ContentArea(p) ==
  IF activeFile' # p \/ ~IsOpen(openFiles', p) THEN NoEditor
  ELSE IF /\ editors[p].mounted
          /\ IsOpen(openFiles, p)
          /\ FileAt(openFiles, p) = FileAt(openFiles', p)
    THEN editors[p]
  ELSE EditorOf(FileAt(openFiles', p))

\* the legacy page keeps one .file-content element per open file, made by
\* createContentElement when the file is opened, removed by closeFile
ContentElement(p) ==
  IF ~IsOpen(openFiles', p) THEN NoEditor
  ELSE IF editors[p].mounted THEN editors[p]
  ELSE EditorOf(FileAt(openFiles', p))

\* the editors after a handler has changed the open files or the active file
EditorsRendered ==
  /\ editors' = [p \in WsFiles |-> IF impl' = "react" THEN ContentArea(p) ELSE ContentElement(p)]
  /\ typed' = [p \in WsFiles |-> IF IsOpen(openFiles', p) THEN typed[p] ELSE NotTyped]

\* an async handler suspended at an await: pc names the IPC call it waits
\* for, paths/val are the values it captured for that call or the next
Task(kind, path, pc, paths, val, flag) ==
  [kind |-> kind, path |-> path, pc |-> pc, paths |-> paths, val |-> val, flag |-> flag]

\* the initial load waiting for the answer to one of its getConfig calls
StartupRequest == Task("startup", Null, "getConfig", <<>>, Null, FALSE)

\* a handler suspends on a new request / returns / goes on to its next request
Spawn(t) == Append(tasks, t)
Finish(i) == SubSeq(tasks, 1, i - 1) \o SubSeq(tasks, i + 1, Len(tasks))
Continue(i, u) == Append(Finish(i), u)

\* config:get and config:set answer without awaiting anything, so the main
\* process answers them in the order sent and before any request sent
\* after them; fs and dialog answers come when the I/O or the user is done
ConfigPcs == {"getConfig", "setOpenFiles", "setActiveFile", "activateFile", "setRootDirectory",
              "getExpandedFolders", "setExpandedFolders"}
Answerable(i) == \A j \in 1..(i - 1) : tasks[j].pc \notin ConfigPcs
WaitingFor(pc) == {i \in 1..Len(tasks) : tasks[i].pc = pc /\ Answerable(i)}
Waiting(kind, pc) == {i \in WaitingFor(pc) : tasks[i].kind = kind}

\* the handlers a user action has started (the initial load's are extra)
UserTasks == Cardinality({i \in 1..Len(tasks) : tasks[i].kind \notin {"startup", "restore"}})
CanSpawn == UserTasks < scope.tasks
\* dialog.showOpenDialog(mainWindow, ...) is modal to the window: while the
\* picker is open the window takes no user input
PickerOpen == \E i \in 1..Len(tasks) : tasks[i].pc = "dialog"
\* the opens still waiting for their readFile
PendingOpens == Cardinality({i \in 1..Len(tasks) : tasks[i].kind = "open" /\ tasks[i].pc = "readFile"})

\* ----------------------------------------------------- renderer: React App

\* an open that does not look for the path in the open-file list
HandleOpenFile_noLookup(filePath) ==
  /\ impl = "react"
  /\ ~PickerOpen
  /\ evt' = Event("openFile", filePath)
  /\ IF rootDirectory = Null \/ ~InRootByPrefix(filePath, rootDirectory)
       THEN UNCHANGED <<activeFile, tasks>>
     ELSE /\ CanSpawn
          /\ tasks' = Spawn(Task("open", filePath, "readFile", PathsOf(openFiles), Null, FALSE))
          /\ UNCHANGED activeFile
  /\ UNCHANGED <<rootDirectory, openFiles, startup, restarts, impl, scope, treeVars>>
  /\ UNCHANGED fsVars
  /\ EditorsRendered

\* App.handleOpenFile up to its first await
HandleOpenFile(filePath) ==
  /\ impl = "react"
  /\ ~PickerOpen
  /\ evt' = Event("openFile", filePath)
  /\ IF rootDirectory = Null \/ ~InRootByPrefix(filePath, rootDirectory)
       THEN UNCHANGED <<activeFile, tasks>>
     ELSE IF IsOpen(openFiles, filePath)
       THEN activeFile' = filePath /\ UNCHANGED tasks
     ELSE /\ CanSpawn
          /\ Len(openFiles) + PendingOpens < scope.open
          /\ tasks' = Spawn(Task("open", filePath, "readFile", PathsOf(openFiles), Null, FALSE))
          /\ UNCHANGED activeFile
  /\ UNCHANGED <<rootDirectory, openFiles, startup, restarts, impl, scope, treeVars>>
  /\ UNCHANGED fsVars
  /\ EditorsRendered

\* an open that makes the file the active one before it looks at the
\* readFile response
HandleOpenFile_read_activateFirst(i) ==
  LET t == tasks[i]
      result == FsReadFile(store, disk, t.path).res
  IN /\ impl = "react"
     /\ evt' = Resumed
     /\ activeFile' = t.path
     /\ IF result.error # NoError
          THEN /\ tasks' = Finish(i)
               /\ UNCHANGED openFiles
          ELSE /\ openFiles' = Append(openFiles, OpenFile(t.path, result.content, TRUE))
               /\ tasks' = Continue(i, Task("open", t.path, "setOpenFiles",
                                           Append(t.paths, t.path), t.path, FALSE))
     /\ UNCHANGED <<rootDirectory, startup, restarts, impl, scope, treeVars>>
     /\ UNCHANGED fsVars
     /\ EditorsRendered

\* App.handleOpenFile from the readFile response to the next await
HandleOpenFile_read(i) ==
  LET t == tasks[i]
      result == FsReadFile(store, disk, t.path).res
  IN /\ impl = "react"
     /\ evt' = Resumed
     /\ IF result.error # NoError
          THEN /\ tasks' = Finish(i)
               /\ UNCHANGED <<openFiles, activeFile>>
          ELSE /\ openFiles' = Append(openFiles, OpenFile(t.path, result.content, TRUE))
               /\ activeFile' = t.path
               /\ tasks' = Continue(i, Task("open", t.path, "setOpenFiles",
                                           Append(t.paths, t.path), t.path, FALSE))
     /\ UNCHANGED <<rootDirectory, startup, restarts, impl, scope, treeVars>>
     /\ UNCHANGED fsVars
     /\ EditorsRendered

\* a close that activates the entry that followed the closed one (the
\* last one when it was the last)
HandleCloseFile_neighbour(filePath) ==
  LET remainingFiles == WithoutPath(openFiles, filePath)
      openFilePaths == PathsOf(remainingFiles)
      at == CHOOSE k \in 1..Len(openFiles) : openFiles[k].path = filePath
      neighbour == IF Len(openFilePaths) = 0 THEN Null
                   ELSE IF at <= Len(openFilePaths) THEN openFilePaths[at]
                   ELSE openFilePaths[Len(openFilePaths)]
  IN /\ impl = "react"
     /\ ~PickerOpen
     /\ IsOpen(openFiles, filePath)
     /\ CanSpawn
     /\ evt' = Event("closeFile", filePath)
     /\ openFiles' = remainingFiles
     /\ activeFile' = IF activeFile = filePath THEN neighbour ELSE activeFile
     /\ tasks' = Spawn(Task("close", filePath, "setOpenFiles", openFilePaths,
                            neighbour, activeFile = filePath))
     /\ UNCHANGED <<rootDirectory, startup, restarts, impl, scope, treeVars>>
     /\ UNCHANGED fsVars
     /\ EditorsRendered

\* App.handleCloseFile up to its first await
HandleCloseFile(filePath) ==
  LET remainingFiles == WithoutPath(openFiles, filePath)
      openFilePaths == PathsOf(remainingFiles)
  IN /\ impl = "react"
     /\ ~PickerOpen
     /\ IsOpen(openFiles, filePath)
     /\ CanSpawn
     /\ evt' = Event("closeFile", filePath)
     /\ openFiles' = remainingFiles
     /\ activeFile' = IF activeFile = filePath THEN FirstOrNull(openFilePaths) ELSE activeFile
     /\ tasks' = Spawn(Task("close", filePath, "setOpenFiles", openFilePaths,
                            FirstOrNull(openFilePaths), activeFile = filePath))
     /\ UNCHANGED <<rootDirectory, startup, restarts, impl, scope, treeVars>>
     /\ UNCHANGED fsVars
     /\ EditorsRendered

\* the setConfig('openFiles', ...) of handleOpenFile and handleCloseFile is
\* answered; an open always goes on to save the active file, a close only
\* when the closed file was the active one
SetConfig_openFiles(i) ==
  LET t == tasks[i]
  IN /\ impl = "react"
     /\ evt' = Resumed
     /\ store' = ConfigSet(store, disk, "openFiles", t.paths).store
     /\ tasks' = IF t.kind = "open" \/ t.flag
                   THEN Continue(i, Task(t.kind, t.path, "setActiveFile", <<>>, t.val, t.flag))
                   ELSE Finish(i)
     /\ UNCHANGED <<rootDirectory, openFiles, activeFile, startup, restarts, impl, scope, treeVars>>
     /\ UNCHANGED <<disk, req, res, fsCalls, accepted, saves>>
     /\ EditorsRendered

\* the setConfig('activeFile', ...) that ends a handler is answered
SetConfig_activeFile(i) ==
  LET t == tasks[i]
  IN /\ impl = "react"
     /\ evt' = Resumed
     /\ store' = ConfigSet(store, disk, "activeFile", t.val).store
     /\ tasks' = Finish(i)
     /\ UNCHANGED <<rootDirectory, openFiles, activeFile, startup, restarts, impl, scope, treeVars>>
     /\ UNCHANGED <<disk, req, res, fsCalls, accepted, saves>>
     /\ EditorsRendered

\* TabsBar: a click on the tab of an open file
TabClick(filePath) ==
  /\ impl = "react"
  /\ ~PickerOpen
  /\ IsOpen(openFiles, filePath)
  /\ evt' = Event("setActiveFile", filePath)
  /\ activeFile' = filePath
  /\ UNCHANGED <<rootDirectory, openFiles, tasks, startup, restarts, impl, scope, treeVars>>
  /\ UNCHANGED fsVars
  /\ EditorsRendered

\* FileTree.handleSelectDirectory up to its await of the folder picker
HandleSelectDirectory ==
  /\ impl = "react"
  /\ ~PickerOpen
  /\ CanSpawn
  /\ evt' = Event("selectDirectory", Null)
  /\ tasks' = Spawn(Task("select", Null, "dialog", <<>>, Null, FALSE))
  /\ UNCHANGED <<rootDirectory, openFiles, activeFile, startup, restarts, impl, scope, treeVars>>
  /\ UNCHANGED fsVars
  /\ EditorsRendered

\* the picker answers: dialog:openDirectory runs in the main process, then
\* handleSelectDirectory calls App.handleSetRootDirectory and issues its own
\* setConfig('rootDirectory', ...) with the same value
HandleSelectDirectory_dialog(i, choice) ==
  LET out == DialogOpenDirectory(store, disk, choice)
      result == out.res
  IN /\ impl = "react"
     /\ evt' = Resumed
     /\ store' = out.store
     /\ IF ~result.canceled /\ result.directory # Null
          THEN /\ rootDirectory' = result.directory
               /\ tasks' = Continue(i, Task("select", Null, "setRootDirectory", <<>>,
                                           result.directory, FALSE))
          ELSE /\ tasks' = Finish(i)
               /\ UNCHANGED rootDirectory
     /\ UNCHANGED <<openFiles, activeFile, startup, restarts, impl, scope, treeVars>>
     /\ UNCHANGED <<disk, req, res, fsCalls, accepted, saves>>
     /\ EditorsRendered

\* both setConfig('rootDirectory', dir) calls of a selection are answered
SetConfig_rootDirectory(i) ==
  LET t == tasks[i]
  IN /\ impl = "react"
     /\ evt' = Resumed
     /\ store' = ConfigSet(store, disk, "rootDirectory", t.val).store
     /\ tasks' = Finish(i)
     /\ UNCHANGED <<rootDirectory, openFiles, activeFile, startup, restarts, impl, scope, treeVars>>
     /\ UNCHANGED <<disk, req, res, fsCalls, accepted, saves>>
     /\ EditorsRendered

\* App.loadInitialState once its timer has fired, up to loadSavedFiles'
\* await of getConfig('openFiles')
LoadInitialState(i) ==
  LET rootDir == ConfigGet(store, disk, "rootDirectory").res.value
  IN /\ impl = "react"
     /\ startup.pc = "start"
     /\ evt' = Resumed
     /\ IF rootDir # Null
          THEN /\ rootDirectory' = rootDir
               /\ startup' = [pc |-> "getOpenFiles", rootDir |-> rootDir, validFiles |-> <<>>]
               /\ tasks' = Continue(i, StartupRequest)
          ELSE /\ startup' = [StartupIdle EXCEPT !.pc = "done"]
               /\ tasks' = Finish(i)
               /\ UNCHANGED rootDirectory
     /\ UNCHANGED <<openFiles, activeFile, restarts, impl, scope, treeVars>>
     /\ UNCHANGED fsVars
     /\ EditorsRendered

\* App.loadSavedFiles from the openFiles response to the next await
LoadSavedFiles(i) ==
  LET savedOpenFiles == ConfigGet(store, disk, "openFiles").res.value
      validFiles == ValidFiles(savedOpenFiles, startup.rootDir)
  IN /\ impl = "react"
     /\ startup.pc = "getOpenFiles"
     /\ evt' = Resumed
     /\ IF Len(validFiles) > 0
          THEN /\ openFiles' = [k \in 1..Len(validFiles) |-> OpenFile(validFiles[k], "", FALSE)]
               /\ startup' = [startup EXCEPT !.pc = "getActiveFile", !.validFiles = validFiles]
               /\ tasks' = Continue(i, StartupRequest)
          ELSE /\ startup' = [StartupIdle EXCEPT !.pc = "done"]
               /\ tasks' = Finish(i)
               /\ UNCHANGED openFiles
     /\ UNCHANGED <<rootDirectory, activeFile, restarts, impl, scope, treeVars>>
     /\ UNCHANGED fsVars
     /\ EditorsRendered

\* loadSavedFiles activating the persisted active file whether or not it
\* is among the restored files
LoadSavedFiles_activeFile_lastSaved(i) ==
  LET lastActiveFile == ConfigGet(store, disk, "activeFile").res.value
  IN /\ impl = "react"
     /\ startup.pc = "getActiveFile"
     /\ evt' = Resumed
     /\ activeFile' = lastActiveFile
     /\ startup' = [StartupIdle EXCEPT !.pc = "done"]
     /\ tasks' = Finish(i)
     /\ UNCHANGED <<rootDirectory, openFiles, restarts, impl, scope, treeVars>>
     /\ UNCHANGED fsVars
     /\ EditorsRendered

\* App.loadSavedFiles from the activeFile response to its end
LoadSavedFiles_activeFile(i) ==
  LET lastActiveFile == ConfigGet(store, disk, "activeFile").res.value
      validFiles == startup.validFiles
      includes == \E k \in 1..Len(validFiles) : validFiles[k] = lastActiveFile
  IN /\ impl = "react"
     /\ startup.pc = "getActiveFile"
     /\ evt' = Resumed
     /\ activeFile' = IF lastActiveFile # Null /\ includes THEN lastActiveFile
                      ELSE validFiles[1]
     /\ startup' = [StartupIdle EXCEPT !.pc = "done"]
     /\ tasks' = Finish(i)
     /\ UNCHANGED <<rootDirectory, openFiles, restarts, impl, scope, treeVars>>
     /\ UNCHANGED fsVars
     /\ EditorsRendered

NextReact ==
  \/ \E f \in scope.files : HandleOpenFile(f)
  \/ \E i \in Waiting("open", "readFile") : HandleOpenFile_read(i)
  \/ \E f \in scope.files : HandleCloseFile(f)
  \/ \E i \in WaitingFor("setOpenFiles") : SetConfig_openFiles(i)
  \/ \E i \in WaitingFor("setActiveFile") : SetConfig_activeFile(i)
  \/ \E f \in scope.files : TabClick(f)
  \/ HandleSelectDirectory
  \/ \E i \in WaitingFor("dialog") : \E c \in scope.dirs \cup {Null} :
        HandleSelectDirectory_dialog(i, c)
  \/ \E i \in WaitingFor("setRootDirectory") : SetConfig_rootDirectory(i)
  \/ \E i \in WaitingFor("getConfig") : LoadInitialState(i)
  \/ \E i \in WaitingFor("getConfig") : LoadSavedFiles(i)
  \/ \E i \in WaitingFor("getConfig") : LoadSavedFiles_activeFile(i)

\* ------------------------------------- renderer: legacy WorkspaceManager
\* The manager with its DOM elements present; the tab strip shows one tab
\* per entry of openFiles.  The root directory lives in the config store only.

\* loadOpenFiles' loop reaches a file that is already open: openFile
\* returns at once and the loop goes on
RECURSIVE SkipOpen(_, _)
SkipOpen(queue, files) ==
  IF queue = <<>> THEN <<>>
  ELSE IF IsOpen(files, Head(queue)) THEN SkipOpen(Tail(queue), files)
  ELSE queue

\* loadOpenFiles' loop takes its next file, or leaves the loop and asks
\* for the persisted active file
RestoreNext(queue, files, tk) ==
  LET q == SkipOpen(queue, files)
  IN IF q = <<>>
       THEN [startup |-> [startup EXCEPT !.pc = "getActiveFile", !.validFiles = <<>>],
             tasks |-> Append(tk, StartupRequest)]
       ELSE [startup |-> [startup EXCEPT !.pc = "opening", !.validFiles = Tail(q)],
             tasks |-> Append(tk, Task("restore", Head(q), "readFile", <<>>, Null, FALSE))]

\* a handler returns; when it is loadOpenFiles' openFile the loop goes on
Return(i, files) ==
  IF tasks[i].kind = "restore" THEN RestoreNext(startup.validFiles, files, Finish(i))
  ELSE [startup |-> startup, tasks |-> Finish(i)]

\* WorkspaceManager.loadOpenFiles up to its await of getConfig('rootDirectory')
WM_loadOpenFiles(i) ==
  LET savedOpenFiles == ConfigGet(store, disk, "openFiles").res.value
  IN /\ impl = "legacy"
     /\ startup.pc = "start"
     /\ evt' = Resumed
     /\ IF Len(savedOpenFiles) > 0
          THEN /\ startup' = [pc |-> "getRootDirectory", rootDir |-> Null,
                              validFiles |-> savedOpenFiles]
               /\ tasks' = Continue(i, StartupRequest)
          ELSE /\ startup' = [StartupIdle EXCEPT !.pc = "done"]
               /\ tasks' = Finish(i)
     /\ UNCHANGED <<rootDirectory, openFiles, activeFile, restarts, impl, scope, treeVars>>
     /\ UNCHANGED fsVars
     /\ EditorsRendered

\* loadOpenFiles from the rootDirectory response into its loop
WM_loadOpenFiles_rootDirectory(i) ==
  LET rootDir == ConfigGet(store, disk, "rootDirectory").res.value
      validFiles == ValidFiles(startup.validFiles, rootDir)
      next == RestoreNext(validFiles, openFiles, Finish(i))
  IN /\ impl = "legacy"
     /\ startup.pc = "getRootDirectory"
     /\ evt' = Resumed
     /\ IF rootDir = Null \/ Len(validFiles) = 0
          THEN /\ startup' = [StartupIdle EXCEPT !.pc = "done"]
               /\ tasks' = Finish(i)
          ELSE /\ startup' = [next.startup EXCEPT !.rootDir = rootDir]
               /\ tasks' = next.tasks
     /\ UNCHANGED <<rootDirectory, openFiles, activeFile, restarts, impl, scope, treeVars>>
     /\ UNCHANGED fsVars
     /\ EditorsRendered

\* loadOpenFiles from the activeFile response to its last await
WM_loadOpenFiles_activeFile(i) ==
  LET lastActiveFile == ConfigGet(store, disk, "activeFile").res.value
      target == IF lastActiveFile # Null /\ IsOpen(openFiles, lastActiveFile)
                  THEN lastActiveFile
                ELSE IF Len(openFiles) > 0 THEN openFiles[1].path
                ELSE Null
  IN /\ impl = "legacy"
     /\ startup.pc = "getActiveFile"
     /\ evt' = Resumed
     /\ startup' = [StartupIdle EXCEPT !.pc = "done"]
     /\ IF target # Null
          THEN /\ activeFile' = target
               /\ tasks' = Continue(i, Task("activate", target, "activateFile", <<>>,
                                           target, TRUE))
          ELSE /\ tasks' = Finish(i)
               /\ UNCHANGED activeFile
     /\ UNCHANGED <<rootDirectory, openFiles, restarts, impl, scope, treeVars>>
     /\ UNCHANGED fsVars
     /\ EditorsRendered

\* WorkspaceManager.openFile(filePath) up to its first await
WM_openFile(filePath) ==
  /\ impl = "legacy"
  /\ CanSpawn
  /\ evt' = Event("openFile", filePath)
  /\ IF IsOpen(openFiles, filePath)
       THEN /\ activeFile' = filePath
            /\ tasks' = Spawn(Task("activate", filePath, "activateFile", <<>>, filePath, TRUE))
       ELSE /\ Len(openFiles) + PendingOpens < scope.open
            /\ tasks' = Spawn(Task("open", filePath, "readFile", <<>>, Null, TRUE))
            /\ UNCHANGED activeFile
  /\ UNCHANGED <<rootDirectory, openFiles, startup, restarts, impl, scope, treeVars>>
  /\ UNCHANGED fsVars
  /\ EditorsRendered

\* openFile from the readFile response to the next await: the one inside
\* activateFile when the file is to be activated, else saveOpenFiles' first
WM_openFile_read(i) ==
  LET t == tasks[i]
      result == FsReadFile(store, disk, t.path).res
      pushed == Append(openFiles, OpenFile(t.path, result.content, TRUE))
      back == Return(i, openFiles)
  IN /\ impl = "legacy"
     /\ evt' = Resumed
     /\ IF result.error # NoError
          THEN /\ tasks' = back.tasks
               /\ startup' = back.startup
               /\ UNCHANGED <<openFiles, activeFile>>
          ELSE /\ openFiles' = pushed
               /\ activeFile' = IF t.flag THEN t.path ELSE activeFile
               /\ tasks' = IF t.flag
                   THEN Continue(i, Task(t.kind, t.path, "activateFile", <<>>, t.path, TRUE))
                   ELSE Continue(i, Task(t.kind, t.path, "setOpenFiles", PathsOf(pushed),
                                         Null, FALSE))
               /\ UNCHANGED startup
     /\ UNCHANGED <<rootDirectory, restarts, impl, scope, treeVars>>
     /\ UNCHANGED fsVars
     /\ EditorsRendered

\* WorkspaceManager.closeFile(filePath) up to its first await
WM_closeFile(filePath) ==
  LET remaining == WithoutPath(openFiles, filePath)
  IN /\ impl = "legacy"
     /\ IsOpen(openFiles, filePath)
     /\ CanSpawn
     /\ evt' = Event("closeFile", filePath)
     /\ openFiles' = remaining
     /\ IF activeFile = filePath /\ Len(remaining) > 0
          THEN /\ activeFile' = remaining[1].path
               /\ tasks' = Spawn(Task("close", filePath, "activateFile", <<>>,
                                      remaining[1].path, TRUE))
          ELSE /\ activeFile' = IF activeFile = filePath THEN Null ELSE activeFile
               /\ tasks' = Spawn(Task("close", filePath, "setOpenFiles", PathsOf(remaining),
                                      Null, FALSE))
     /\ UNCHANGED <<rootDirectory, startup, restarts, impl, scope, treeVars>>
     /\ UNCHANGED fsVars
     /\ EditorsRendered

\* a click on a tab: WorkspaceManager.activateFile up to its await
WM_activateFile(filePath) ==
  /\ impl = "legacy"
  /\ IsOpen(openFiles, filePath)
  /\ CanSpawn
  /\ evt' = Event("setActiveFile", filePath)
  /\ activeFile' = filePath
  /\ tasks' = Spawn(Task("activate", filePath, "activateFile", <<>>, filePath, TRUE))
  /\ UNCHANGED <<rootDirectory, openFiles, startup, restarts, impl, scope, treeVars>>
  /\ UNCHANGED fsVars
  /\ EditorsRendered

\* activateFile's setConfig('activeFile', filePath) is answered; openFile
\* and closeFile go on to saveOpenFiles, which reads the list as it is now
WM_activateFile_saved(i) ==
  LET t == tasks[i]
  IN /\ impl = "legacy"
     /\ evt' = Resumed
     /\ store' = ConfigSet(store, disk, "activeFile", t.val).store
     /\ tasks' = IF t.kind = "activate" THEN Finish(i)
                 ELSE Continue(i, Task(t.kind, t.path, "setOpenFiles", PathsOf(openFiles),
                                       Null, FALSE))
     /\ UNCHANGED <<rootDirectory, openFiles, activeFile, startup, restarts, impl, scope, treeVars>>
     /\ UNCHANGED <<disk, req, res, fsCalls, accepted, saves>>
     /\ EditorsRendered

\* saveOpenFiles' setConfig('openFiles', ...) is answered; the active file
\* is saved next when there is one
WM_saveOpenFiles(i) ==
  LET t == tasks[i]
      back == Return(i, openFiles)
  IN /\ impl = "legacy"
     /\ evt' = Resumed
     /\ store' = ConfigSet(store, disk, "openFiles", t.paths).store
     /\ IF activeFile # Null
          THEN /\ tasks' = Continue(i, Task(t.kind, t.path, "setActiveFile", <<>>,
                                           activeFile, FALSE))
               /\ UNCHANGED startup
          ELSE /\ tasks' = back.tasks
               /\ startup' = back.startup
     /\ UNCHANGED <<rootDirectory, openFiles, activeFile, restarts, impl, scope, treeVars>>
     /\ UNCHANGED <<disk, req, res, fsCalls, accepted, saves>>
     /\ EditorsRendered

\* saveOpenFiles' setConfig('activeFile', ...) is answered
WM_saveOpenFiles_activeFile(i) ==
  LET t == tasks[i]
      back == Return(i, openFiles)
  IN /\ impl = "legacy"
     /\ evt' = Resumed
     /\ store' = ConfigSet(store, disk, "activeFile", t.val).store
     /\ tasks' = back.tasks
     /\ startup' = back.startup
     /\ UNCHANGED <<rootDirectory, openFiles, activeFile, restarts, impl, scope, treeVars>>
     /\ UNCHANGED <<disk, req, res, fsCalls, accepted, saves>>
     /\ EditorsRendered

\* electronAPI.openDirectory() on the legacy page: the picker and the
\* main-process handler, which stores the accepted folder as the root
OpenDirectory(choice) ==
  /\ impl = "legacy"
  /\ evt' = Event("selectDirectory", choice)
  /\ store' = DialogOpenDirectory(store, disk, choice).store
  /\ UNCHANGED <<rootDirectory, openFiles, activeFile, tasks, startup, restarts, impl, scope, treeVars>>
  /\ UNCHANGED <<disk, req, res, fsCalls, accepted, saves>>
  /\ EditorsRendered

NextLegacy ==
  \/ \E i \in WaitingFor("getConfig") : WM_loadOpenFiles(i)
  \/ \E i \in WaitingFor("getConfig") : WM_loadOpenFiles_rootDirectory(i)
  \/ \E i \in WaitingFor("getConfig") : WM_loadOpenFiles_activeFile(i)
  \/ \E f \in scope.files : WM_openFile(f)
  \/ \E i \in WaitingFor("readFile") : WM_openFile_read(i)
  \/ \E f \in scope.files : WM_closeFile(f)
  \/ \E f \in scope.files : WM_activateFile(f)
  \/ \E i \in WaitingFor("activateFile") : WM_activateFile_saved(i)
  \/ \E i \in WaitingFor("setOpenFiles") : WM_saveOpenFiles(i)
  \/ \E i \in WaitingFor("setActiveFile") : WM_saveOpenFiles_activeFile(i)
  \/ \E c \in scope.dirs : OpenDirectory(c)

\* ------------------------------------------------------ the workspace runs

\* the application is quit and started again: the window's state and its
\* suspended handlers are gone, the config store and the disk stay
Restart ==
  /\ restarts < scope.restarts
  /\ restarts' = restarts + 1
  /\ evt' = Event("restart", Null)
  /\ rootDirectory' = Null
  /\ openFiles' = <<>>
  /\ activeFile' = Null
  /\ tasks' = <<StartupRequest>>
  /\ startup' = StartupIdle
  /\ UNCHANGED <<impl, scope, treeVars>>
  /\ UNCHANGED fsVars
  /\ EditorsRendered

\* a first launch on an empty config store
InitWs ==
  /\ store = EmptyStore
  /\ disk = InitialDisk
  /\ req = Idle
  /\ res = Success
  /\ fsCalls = <<>>
  /\ accepted = {}
  /\ saves = 0
  /\ impl \in Impls
  /\ scope \in Scopes
  /\ tasks = <<StartupRequest>>
  /\ InitRenderer

NextWs ==
  \/ NextReact
  \/ NextLegacy
  \/ Restart

SpecWs == InitWs /\ [][NextWs]_vars

\* ------------------------------------------------------ editing a file

\* what the user can make of an editor's text
EditTexts == {"edited", "edited again"}

\* TextEditor.handleChange (MarkdownEditor's is the same): the text and the
\* flag go to the editor's own state
TextEditor_handleChange(p, text) ==
  /\ impl = "react"
  /\ ~PickerOpen
  /\ editors[p].mounted
  /\ evt' = Event("edit", p)
  /\ editors' = [editors EXCEPT ![p].content = text, ![p].isModified = TRUE]
  /\ typed' = [typed EXCEPT ![p] = text]
  /\ UNCHANGED <<rootDirectory, openFiles, activeFile, tasks, startup, restarts, impl, scope,
                 treeVars>>
  /\ UNCHANGED fsVars

\* the legacy content area's input listener, for the textarea of the
\* active file (the other files' elements are not displayed)
WM_input(p, text) ==
  /\ impl = "legacy"
  /\ editors[p].mounted
  /\ activeFile = p
  /\ evt' = Event("edit", p)
  /\ editors' = [editors EXCEPT ![p].content = text,
                                ![p].isModified = IsOpen(openFiles, p) \/ editors[p].isModified]
  /\ typed' = [typed EXCEPT ![p] = text]
  /\ openFiles' = [k \in 1..Len(openFiles) |->
                     IF openFiles[k].path = p
                       THEN [openFiles[k] EXCEPT !.content = text, !.modified = TRUE]
                     ELSE openFiles[k]]
  /\ UNCHANGED <<rootDirectory, activeFile, tasks, startup, restarts, impl, scope, treeVars>>
  /\ UNCHANGED fsVars

\* two files of /data on offer, one handler at a time, one restart
Editing == [files |-> {P_data_a, P_data_b}, dirs |-> {P_data}, tasks |-> 1,
            open |-> MaxOpenFiles - 1, restarts |-> MaxRestarts]

InitEdit ==
  /\ store = EmptyStore
  /\ disk = InitialDisk
  /\ req = Idle
  /\ res = Success
  /\ fsCalls = <<>>
  /\ accepted = {}
  /\ saves = 0
  /\ impl \in Impls
  /\ scope = Editing
  /\ tasks = <<StartupRequest>>
  /\ InitRenderer

NextEdit ==
  \/ NextReact
  \/ NextLegacy
  \/ Restart
  \/ \E p \in scope.files : \E text \in EditTexts : TextEditor_handleChange(p, text)
  \/ \E p \in scope.files : \E text \in EditTexts : WM_input(p, text)

SpecEdit == InitEdit /\ [][NextEdit]_vars

\* ===================================================================
\* The renderer's file tree
\* ===================================================================

\* the root directories the folder picker is asked for
TreeRoots == {P_root, P_data}

\* The runs of the file tree: the roots selected (dirs), the folders
\* clicked (folders), the toggles not yet saved (tasks), the folders
\* another program deletes (removes).
Nested == [files |-> {}, dirs |-> {P_root}, tasks |-> 1, open |-> 0, restarts |-> 0,
           folders |-> {P_data, P_data_sub}, removes |-> {}]
Flat == [files |-> {}, dirs |-> {P_root}, tasks |-> MaxTasks, open |-> 0, restarts |-> 0,
         folders |-> {P_data2, P_ro}, removes |-> {P_ro}]
Reselected == [files |-> {}, dirs |-> TreeRoots, tasks |-> 1, open |-> 0, restarts |-> 0,
               folders |-> {P_data_sub}, removes |-> {}]
TreeScopes == {Nested, Flat, Reselected}

\* a suspended tree handler: the directory asked for (path), the root the
\* main process held when the request reached it (val), whether the
\* component that sent it is still mounted (flag), the set a
\* setConfig('expandedFolders', ...) carries (folders)
TreeTask(kind, path, pc, root, live, set) ==
  [kind |-> kind, path |-> path, pc |-> pc, paths |-> <<>>, val |-> root, flag |-> live,
   folders |-> set]

\* the answers fs:getDirectoryContents can give to request t: the guard
\* ran when the request arrived, fs.readdir runs now
Listings(t) ==
  LET found == Lookup(disk, t.path)
      names == IF found.err = NoError /\ IsDir(disk, found.at)
                 THEN ChildNames(disk, found.at) ELSE {}
  IN {FsGetDirectoryContents([store EXCEPT !.rootDirectory = t.val], disk, t.path, order).res :
        order \in Orders(names)}

\* sortItems: directories first, then by name
sortItems(items) == SortContents(items)

\* the directories among listed items
DirPaths(items) == {items[k].path : k \in {j \in 1..Len(items) : items[j].isDirectory}}

\* the order in which FolderItem effects run
FolderOrder == <<P_data, P_data_sub, P_data2, P_ro>>

\* requests not yet answered that carry a set of expanded folders
PendingWrites == Cardinality({i \in 1..Len(tasks) : tasks[i].pc = "setExpandedFolders"})

\* ---------------------------------------------- renderer: React FileTree

\* renderFileTree / renderFolderContent: React renders a FolderItem for
\* folder p
RECURSIVE Rendered(_, _, _, _, _, _)
Rendered(p, root, items, ld, fs, ex) ==
  IF root = Null \/ ld THEN FALSE
  ELSE IF p \in DirPaths(items) THEN TRUE
  ELSE LET q == Parent(p)
       IN /\ q \in TreeFolders
          /\ q # p
          /\ p \in DirPaths(fs[q].children)
          /\ q \in ex
          /\ ~fs[q].loading
          /\ fs[q].error = NoError
          /\ Rendered(q, root, items, ld, fs, ex)

\* React commits a render and runs the FolderItem effects: instances are
\* mounted and unmounted, and every mounted instance that is expanded,
\* has no children and is not loading starts loadChildren
Commit(root, items, ld, fs, ex, tk, fc) ==
  LET r(p) == Rendered(p, root, items, ld, fs, ex)
      kept == [p \in TreeFolders |->
                 IF ~r(p) THEN NotMounted
                 ELSE IF fs[p].mounted THEN fs[p]
                 ELSE [NotMounted EXCEPT !.mounted = TRUE]]
      orphaned == [i \in 1..Len(tk) |->
                     IF tk[i].kind = "loadChildren" /\ fs[tk[i].path].mounted /\ ~r(tk[i].path)
                       THEN [tk[i] EXCEPT !.flag = FALSE] ELSE tk[i]]
      starts == {p \in TreeFolders : /\ kept[p].mounted
                                     /\ p \in ex
                                     /\ Len(kept[p].children) = 0
                                     /\ ~kept[p].loading}
      ordered == SelectSeq(FolderOrder, LAMBDA p : p \in starts)
  IN [ok |-> \A p \in starts : fc[p] < MaxFetches,
      folders |-> [p \in TreeFolders |->
                     IF p \in starts THEN [kept[p] EXCEPT !.loading = TRUE] ELSE kept[p]],
      tasks |-> orphaned \o [k \in 1..Len(ordered) |->
                  TreeTask("loadChildren", ordered[k], "listDir", store.rootDirectory, TRUE, {})],
      fetches |-> [d \in TreeDirs |-> IF d \in starts THEN fc[d] + 1 ELSE fc[d]]]

\* FileTree.handleSelectDirectory with the picker's answer dir, which the
\* main process has stored as the root: setRootDirectory(dir), then the
\* two effects of FileTree that depend on rootDirectory.  (The two
\* setConfig('rootDirectory', dir) calls write the value just stored.)
FileTree_selectDirectory(dir) ==
  LET picked == DialogOpenDirectory(store, disk, dir)
      next == Commit(dir, rootItems, TRUE, folders, expandedFolders, tasks, fetches)
  IN /\ impl = "react"
     /\ dir # rootDirectory
     /\ picked.res.directory # Null
     /\ fetches[dir] < MaxFetches
     /\ next.ok
     /\ evt' = Event("selectDirectory", dir)
     /\ store' = picked.store
     /\ rootDirectory' = dir
     /\ loading' = TRUE
     /\ folders' = next.folders
     /\ tasks' = next.tasks \o
                 <<TreeTask("loadExpanded", dir, "getExpandedFolders", dir, TRUE, {}),
                   TreeTask("loadRoot", dir, "listDir", dir, TRUE, {})>>
     /\ fetches' = [next.fetches EXCEPT ![dir] = @ + 1]
     /\ UNCHANGED <<expandedFolders, rootItems, dom>>
     /\ UNCHANGED <<openFiles, activeFile, startup, restarts, impl, scope>>
     /\ UNCHANGED <<disk, req, res, fsCalls, accepted, saves>>
     /\ UNCHANGED viewVars

\* FileTree.loadExpandedFolders from the getConfig response
FileTree_loadExpandedFolders(i) ==
  LET saved == ConfigGet(store, disk, "expandedFolders").res.value
      next == Commit(rootDirectory, rootItems, loading, folders, saved, Finish(i), fetches)
  IN /\ impl = "react"
     /\ Answerable(i)
     /\ next.ok
     /\ evt' = Resumed
     /\ expandedFolders' = saved
     /\ folders' = next.folders
     /\ tasks' = next.tasks
     /\ fetches' = next.fetches
     /\ UNCHANGED <<rootItems, loading, dom>>
     /\ UNCHANGED <<rootDirectory, openFiles, activeFile, startup, restarts, impl, scope>>
     /\ UNCHANGED fsVars
     /\ UNCHANGED viewVars

\* FileTree.loadRootDirectory from the listing's response
FileTree_loadRootDirectory(i) ==
  \E result \in Listings(tasks[i]) :
    LET items == IF result.error # NoError THEN rootItems ELSE sortItems(result.contents)
        next == Commit(rootDirectory, items, FALSE, folders, expandedFolders, Finish(i), fetches)
    IN /\ impl = "react"
       /\ next.ok
       /\ evt' = Resumed
       /\ rootItems' = items
       /\ loading' = FALSE
       /\ folders' = next.folders
       /\ tasks' = next.tasks
       /\ fetches' = next.fetches
       /\ UNCHANGED <<expandedFolders, dom>>
       /\ UNCHANGED <<rootDirectory, openFiles, activeFile, startup, restarts, impl, scope>>
       /\ UNCHANGED fsVars
       /\ UNCHANGED viewVars

\* FolderItem.handleClick: FileTree.toggleFolder(folderPath) up to its
\* await, then the effects of the render it causes
ToggleFolder(folderPath) ==
  LET newExpandedFolders == IF folderPath \in expandedFolders
                              THEN expandedFolders \ {folderPath}
                              ELSE expandedFolders \cup {folderPath}
      saving == Append(tasks, TreeTask("toggle", folderPath, "setExpandedFolders",
                                       store.rootDirectory, TRUE, newExpandedFolders))
      next == Commit(rootDirectory, rootItems, loading, folders, newExpandedFolders, saving,
                     fetches)
  IN /\ impl = "react"
     /\ folderPath \in scope.folders
     /\ folders[folderPath].mounted
     /\ PendingWrites < scope.tasks
     /\ next.ok
     /\ evt' = Event("toggle", folderPath)
     /\ expandedFolders' = newExpandedFolders
     /\ folders' = next.folders
     /\ tasks' = next.tasks
     /\ fetches' = next.fetches
     /\ UNCHANGED <<rootItems, loading, dom>>
     /\ UNCHANGED <<rootDirectory, openFiles, activeFile, startup, restarts, impl, scope>>
     /\ UNCHANGED fsVars
     /\ UNCHANGED viewVars

\* toggleFolder's setConfig('expandedFolders', ...) is answered
SetConfig_expandedFolders(i) ==
  /\ impl = "react"
  /\ Answerable(i)
  /\ evt' = Resumed
  /\ store' = ConfigSet(store, disk, "expandedFolders", tasks[i].folders).store
  /\ tasks' = Finish(i)
  /\ UNCHANGED treeVars
  /\ UNCHANGED <<rootDirectory, openFiles, activeFile, startup, restarts, impl, scope>>
  /\ UNCHANGED <<disk, req, res, fsCalls, accepted, saves>>
  /\ UNCHANGED viewVars

\* a loadChildren whose response is applied to every folder that is loading
FolderItem_loadChildren_shared(i) ==
  \E result \in Listings(tasks[i]) :
    LET updated(p) == IF result.error # NoError
                        THEN [folders[p] EXCEPT !.error = result.error, !.loading = FALSE]
                        ELSE [folders[p] EXCEPT !.children = sortItems(result.contents),
                                                !.error = NoError, !.loading = FALSE]
        fs == [p \in TreeFolders |-> IF folders[p].loading THEN updated(p) ELSE folders[p]]
        next == Commit(rootDirectory, rootItems, loading, fs, expandedFolders, Finish(i),
                       fetches)
    IN /\ impl = "react"
       /\ next.ok
       /\ evt' = Resumed
       /\ folders' = next.folders
       /\ tasks' = next.tasks
       /\ fetches' = next.fetches
       /\ UNCHANGED <<expandedFolders, rootItems, loading, dom>>
       /\ UNCHANGED <<rootDirectory, openFiles, activeFile, startup, restarts, impl, scope>>
       /\ UNCHANGED fsVars
       /\ UNCHANGED viewVars

\* FolderItem.loadChildren from the listing's response; React drops the
\* state updates of an instance that is no longer mounted
FolderItem_loadChildren(i) ==
  \E result \in Listings(tasks[i]) :
    LET t == tasks[i]
        updated == IF result.error # NoError
                     THEN [folders[t.path] EXCEPT !.error = result.error, !.loading = FALSE]
                     ELSE [folders[t.path] EXCEPT !.children = sortItems(result.contents),
                                                  !.error = NoError, !.loading = FALSE]
        fs == IF t.flag THEN [folders EXCEPT ![t.path] = updated] ELSE folders
        next == Commit(rootDirectory, rootItems, loading, fs, expandedFolders, Finish(i),
                       fetches)
    IN /\ impl = "react"
       /\ next.ok
       /\ evt' = Resumed
       /\ folders' = next.folders
       /\ tasks' = next.tasks
       /\ fetches' = next.fetches
       /\ UNCHANGED <<expandedFolders, rootItems, loading, dom>>
       /\ UNCHANGED <<rootDirectory, openFiles, activeFile, startup, restarts, impl, scope>>
       /\ UNCHANGED fsVars
       /\ UNCHANGED viewVars

\* --------------------------------- renderer: legacy FileTreeManager
\* One manager on a page that has the #file-tree element.  dom holds the
\* child nodes of #file-tree: "loading", "error" and "empty-folder" divs,
\* and one "item" node per file or folder; a folder item carries the class
\* of its toggle icon (expanded), whether it has a .folder-children
\* container (box) and the container's child nodes (nodes).

Div(tag) ==
  [tag |-> tag, path |-> Null, isDirectory |-> FALSE, expanded |-> FALSE, box |-> FALSE,
   nodes |-> <<>>]

ItemNode(item, isExpanded, box, nodes) ==
  [tag |-> "item", path |-> item.path, isDirectory |-> item.isDirectory,
   expanded |-> isExpanded, box |-> box, nodes |-> nodes]

\* the node at position pos (child indices from #file-tree down)
RECURSIVE NodeAt(_, _)
NodeAt(nodes, pos) ==
  IF Len(pos) = 1 THEN nodes[pos[1]] ELSE NodeAt(nodes[pos[1]].nodes, Tail(pos))

\* the positions of all nodes
RECURSIVE Positions(_)
Positions(nodes) ==
  {<<i>> : i \in 1..Len(nodes)}
  \cup UNION {{<<i>> \o q : q \in Positions(nodes[i].nodes)} : i \in 1..Len(nodes)}

\* the node at pos replaced by el
RECURSIVE Replace(_, _, _)
Replace(nodes, pos, el) ==
  [i \in 1..Len(nodes) |->
     IF i # pos[1] THEN nodes[i]
     ELSE IF Len(pos) = 1 THEN el
     ELSE [nodes[i] EXCEPT !.nodes = Replace(nodes[i].nodes, Tail(pos), el)]]

\* the child nodes of the container of the item at pos (of #file-tree
\* itself for the empty position)
BoxOf(nodes, pos) == IF pos = <<>> THEN nodes ELSE NodeAt(nodes, pos).nodes

\* container.innerHTML = ... / container.appendChild(...): new child nodes
SetBox(nodes, pos, content) ==
  IF pos = <<>> THEN content
  ELSE Replace(nodes, pos, [NodeAt(nodes, pos) EXCEPT !.box = TRUE, !.nodes = content])

\* document order
RECURSIVE Precedes(_, _)
Precedes(a, b) ==
  IF a = <<>> THEN b # <<>>
  ELSE IF b = <<>> THEN FALSE
  ELSE IF a[1] # b[1] THEN a[1] < b[1]
  ELSE Precedes(Tail(a), Tail(b))

\* querySelector(`.folder-item[data-path="..."]`): the positions matching
FolderItemsAt(nodes, folderPath) ==
  {q \in Positions(nodes) : LET el == NodeAt(nodes, q)
                            IN el.tag = "item" /\ el.isDirectory /\ el.path = folderPath}

QuerySelector(nodes, folderPath) ==
  LET found == FolderItemsAt(nodes, folderPath)
  IN IF found = {} THEN <<>>
     ELSE CHOOSE q \in found : \A r \in found : r = q \/ Precedes(q, r)

\* every folder above pos is expanded, so the item at pos is on screen
OnScreen(nodes, pos) ==
  \A n \in 1..(Len(pos) - 1) : NodeAt(nodes, SubSeq(pos, 1, n)).expanded

\* a suspended handler of the manager: a tree task with the position of
\* the container it renders into (at) and the renderDirectory calls it is
\* inside of, outermost first (frames); flag tells whether the container
\* is still part of the document
DomTask(kind, path, pc, root, at, frames, set) ==
  TreeTask(kind, path, pc, root, TRUE, set) @@ [at |-> at, frames |-> frames]

\* a renderDirectory call suspended at the listing of contents[k]; built
\* is its fragment, whose last node is the item being listed
Frame(contents, k, built) == [contents |-> contents, k |-> k, built |-> built]

\* elements inside the container at pos leave the document: handlers
\* rendering into them go on without effect on it
Detach(tk, pos) ==
  [i \in 1..Len(tk) |->
     IF Len(tk[i].at) > Len(pos) /\ SubSeq(tk[i].at, 1, Len(pos)) = pos
       THEN [tk[i] EXCEPT !.flag = FALSE] ELSE tk[i]]

\* renderDirectory's loop from item k on: it ends (k = 0) or suspends at
\* the listing of an expanded folder (k > 0)
RECURSIVE RenderFrom(_, _, _, _)
RenderFrom(contents, k, built, ex) ==
  IF k > Len(contents) THEN [k |-> 0, built |-> built]
  ELSE LET item == contents[k]
       IN IF item.isDirectory /\ item.path \in ex
            THEN [k |-> k,
                  built |-> Append(built, ItemNode(item, TRUE, TRUE, <<Div("loading")>>))]
            ELSE RenderFrom(contents, k + 1, Append(built, ItemNode(item, FALSE, FALSE, <<>>)),
                            ex)

\* FileTreeManager.renderDirectory(contents, parentElement, parentPath) up
\* to its first await or its end
renderDirectory(contents, ex) ==
  IF Len(contents) = 0 THEN [k |-> 0, built |-> <<Div("empty-folder")>>]
  ELSE RenderFrom(contents, 1, <<>>, ex)

\* the fragment with the container of its last item filled with content
FillLast(built, content) ==
  [built EXCEPT ![Len(built)] = [@ EXCEPT !.nodes = content]]

\* the innermost renderDirectory goes on after the item it was listing;
\* a call that ends appends its fragment to the container of its caller
RECURSIVE Unwind(_, _)
Unwind(frames, ex) ==
  LET n == Len(frames)
      top == frames[n]
      r == RenderFrom(top.contents, top.k + 1, top.built, ex)
  IN IF r.k > 0
       THEN [frames |-> SubSeq(frames, 1, n - 1) \o <<Frame(top.contents, r.k, r.built)>>,
             built |-> <<>>]
     ELSE IF n = 1 THEN [frames |-> <<>>, built |-> r.built]
     ELSE LET caller == frames[n - 1]
          IN Unwind(SubSeq(frames, 1, n - 2)
                      \o <<Frame(caller.contents, caller.k, FillLast(caller.built, r.built))>>,
                    ex)

\* the listing a suspended renderDirectory awaits has answered
Resume(frames, result, ex) ==
  LET n == Len(frames)
      top == frames[n]
      inner == renderDirectory(result.contents, ex)
  IN IF result.error # NoError
       THEN Unwind(SubSeq(frames, 1, n - 1)
                     \o <<Frame(top.contents, top.k, FillLast(top.built, <<Div("error")>>))>>,
                   ex)
     ELSE IF inner.k > 0
       THEN [frames |-> SubSeq(frames, 1, n - 1)
                          \o <<Frame(top.contents, top.k, FillLast(top.built, <<>>)),
                               Frame(result.contents, inner.k, inner.built)>>,
             built |-> <<>>]
     ELSE Unwind(SubSeq(frames, 1, n - 1)
                   \o <<Frame(top.contents, top.k, FillLast(top.built, inner.built))>>,
                 ex)

\* the directory the innermost suspended renderDirectory is listing
Listed(frames) == LET top == frames[Len(frames)] IN top.contents[top.k].path

\* The outermost listing of handler t has answered: the container is
\* cleared and renderDirectory called on it, or it shows the error.
Answered(t, result, ex) ==
  LET first == renderDirectory(result.contents, ex)
  IN IF result.error # NoError THEN [frames |-> <<>>, box |-> <<Div("error")>>]
     ELSE IF first.k > 0
       THEN [frames |-> <<Frame(result.contents, first.k, first.built)>>, box |-> <<>>]
     ELSE [frames |-> <<>>, box |-> first.built]

\* what handler t does once its rendering is over: handleFolderToggle
\* saves the expanded folders, the others return
After(t, tk, i, ex) ==
  LET others == SubSeq(tk, 1, i - 1) \o SubSeq(tk, i + 1, Len(tk))
  IN IF t.kind = "toggle"
       THEN Append(others, [t EXCEPT !.pc = "setExpandedFolders", !.folders = ex,
                                     !.frames = <<>>])
       ELSE others

\* handler t goes on to list a directory from within renderDirectory
Descend(t, tk, i, frames) ==
  Append(SubSeq(tk, 1, i - 1) \o SubSeq(tk, i + 1, Len(tk)),
         [t EXCEPT !.path = Listed(frames), !.frames = frames, !.val = store.rootDirectory])

\* setupEventListeners has run: clicks in #file-tree are handled
Listening ==
  rootDirectory # Null /\ \A i \in 1..Len(tasks) : tasks[i].kind \notin {"load", "loadExpanded"}

\* handleFolderToggle calls not yet over
PendingToggles == Cardinality({i \in 1..Len(tasks) : tasks[i].kind = "toggle"})

\* new FileTreeManager() and loadDirectory(directoryPath) for the folder
\* the picker returned and the main process stored, up to the await of
\* setConfig('rootDirectory', ...)
FTM_loadDirectory(directoryPath) ==
  LET picked == DialogOpenDirectory(store, disk, directoryPath)
  IN /\ impl = "legacy"
     /\ rootDirectory = Null
     /\ picked.res.directory # Null
     /\ evt' = Event("loadDirectory", directoryPath)
     /\ store' = picked.store
     /\ rootDirectory' = directoryPath
     /\ expandedFolders' = {}
     /\ tasks' = tasks \o
          <<DomTask("loadExpanded", directoryPath, "getExpandedFolders", directoryPath,
                    <<>>, <<>>, {}),
            DomTask("load", directoryPath, "setRootDirectory", directoryPath, <<>>, <<>>, {})>>
     /\ UNCHANGED <<rootItems, loading, folders, dom, fetches>>
     /\ UNCHANGED <<openFiles, activeFile, startup, restarts, impl, scope>>
     /\ UNCHANGED <<disk, req, res, fsCalls, accepted, saves>>
     /\ UNCHANGED viewVars

\* FileTreeManager.loadExpandedFolders from the getConfig response
FTM_loadExpandedFolders(i) ==
  /\ impl = "legacy"
  /\ evt' = Resumed
  /\ expandedFolders' = ConfigGet(store, disk, "expandedFolders").res.value
  /\ tasks' = Finish(i)
  /\ UNCHANGED <<rootItems, loading, folders, dom, fetches>>
  /\ UNCHANGED <<rootDirectory, openFiles, activeFile, startup, restarts, impl, scope>>
  /\ UNCHANGED fsVars
  /\ UNCHANGED viewVars

\* loadDirectory from the setConfig response to the await of the listing
FTM_loadDirectory_saved(i) ==
  LET t == tasks[i]
  IN /\ impl = "legacy"
     /\ t.kind = "load"
     /\ fetches[t.path] < MaxFetches
     /\ evt' = Resumed
     /\ store' = ConfigSet(store, disk, "rootDirectory", t.path).store
     /\ dom' = <<Div("loading")>>
     /\ tasks' = Continue(i, [t EXCEPT !.pc = "listDir", !.val = t.path])
     /\ fetches' = [fetches EXCEPT ![t.path] = @ + 1]
     /\ UNCHANGED <<expandedFolders, rootItems, loading, folders>>
     /\ UNCHANGED <<rootDirectory, openFiles, activeFile, startup, restarts, impl, scope>>
     /\ UNCHANGED <<disk, req, res, fsCalls, accepted, saves>>
     /\ UNCHANGED viewVars

\* A handler's own listing has answered (loadDirectory, handleFolderToggle
\* or refreshFileTree): the container shows the error, or is cleared and
\* rendered into, up to the handler's next await or its end.
Listed_answered(i, result) ==
  LET t == tasks[i]
      a == Answered(t, result, expandedFolders)
      tk == IF t.flag THEN Detach(tasks, t.at) ELSE tasks
  IN /\ impl = "legacy"
     /\ t.frames = <<>>
     /\ evt' = Resumed
     /\ dom' = IF t.flag THEN SetBox(dom, t.at, a.box) ELSE dom
     /\ IF a.frames # <<>>
          THEN /\ fetches[Listed(a.frames)] < MaxFetches
               /\ tasks' = Descend(t, tk, i, a.frames)
               /\ fetches' = [fetches EXCEPT ![Listed(a.frames)] = @ + 1]
          ELSE /\ tasks' = After(t, tk, i, expandedFolders)
               /\ UNCHANGED fetches
     /\ UNCHANGED <<expandedFolders, rootItems, loading, folders>>
     /\ UNCHANGED <<rootDirectory, openFiles, activeFile, startup, restarts, impl, scope>>
     /\ UNCHANGED fsVars
     /\ UNCHANGED viewVars

\* loadDirectory from the listing's response
FTM_loadDirectory_listed(i) ==
  \E result \in Listings(tasks[i]) : Listed_answered(i, result)

\* handleFolderToggle(event) for a click on the toggle icon of the folder
\* item of folderPath, up to its first await
FTM_handleFolderToggle(folderPath) ==
  LET pos == QuerySelector(dom, folderPath)
      folderItem == NodeAt(dom, pos)
      needsLoad == \/ Len(folderItem.nodes) = 0
                   \/ (Len(folderItem.nodes) = 1 /\ folderItem.nodes[1].tag = "loading")
      added == expandedFolders \cup {folderPath}
      removed == expandedFolders \ {folderPath}
  IN /\ impl = "legacy"
     /\ Listening
     /\ pos # <<>>
     /\ OnScreen(dom, pos)
     /\ PendingToggles < scope.tasks
     /\ evt' = Event("toggle", folderPath)
     /\ IF ~folderItem.expanded
          THEN /\ expandedFolders' = added
               /\ IF needsLoad
                    THEN /\ fetches[folderPath] < MaxFetches
                         /\ dom' = Replace(dom, pos, [folderItem EXCEPT !.expanded = TRUE,
                                      !.box = TRUE, !.nodes = <<Div("loading")>>])
                         /\ tasks' = Append(tasks, DomTask("toggle", folderPath, "listDir",
                                                         store.rootDirectory, pos, <<>>, {}))
                         /\ fetches' = [fetches EXCEPT ![folderPath] = @ + 1]
                    ELSE /\ dom' = Replace(dom, pos, [folderItem EXCEPT !.expanded = TRUE,
                                                                        !.box = TRUE])
                         /\ tasks' = Append(tasks, DomTask("toggle", folderPath,
                                              "setExpandedFolders", store.rootDirectory, pos,
                                              <<>>, added))
                         /\ UNCHANGED fetches
          ELSE /\ expandedFolders' = removed
               /\ dom' = Replace(dom, pos, [folderItem EXCEPT !.expanded = FALSE])
               /\ tasks' = Append(tasks, DomTask("toggle", folderPath, "setExpandedFolders",
                                                 store.rootDirectory, pos, <<>>, removed))
               /\ UNCHANGED fetches
     /\ UNCHANGED <<rootItems, loading, folders>>
     /\ UNCHANGED <<rootDirectory, openFiles, activeFile, startup, restarts, impl, scope>>
     /\ UNCHANGED fsVars
     /\ UNCHANGED viewVars

\* handleFolderToggle from the listing's response
FTM_handleFolderToggle_listed(i) ==
  \E result \in Listings(tasks[i]) : Listed_answered(i, result)

\* handleFolderToggle's saveExpandedFolders is answered
FTM_saveExpandedFolders(i) ==
  /\ impl = "legacy"
  /\ evt' = Resumed
  /\ store' = ConfigSet(store, disk, "expandedFolders", tasks[i].folders).store
  /\ tasks' = Finish(i)
  /\ UNCHANGED treeVars
  /\ UNCHANGED <<rootDirectory, openFiles, activeFile, startup, restarts, impl, scope>>
  /\ UNCHANGED <<disk, req, res, fsCalls, accepted, saves>>
  /\ UNCHANGED viewVars

\* refreshFileTree(directoryPath) for a folder other than the root, up to
\* its await
FTM_refreshFileTree(directoryPath) ==
  LET pos == QuerySelector(dom, directoryPath)
  IN /\ impl = "legacy"
     /\ rootDirectory # Null
     /\ directoryPath # rootDirectory
     /\ pos # <<>>
     /\ NodeAt(dom, pos).box
     /\ fetches[directoryPath] < MaxFetches
     /\ evt' = Event("refresh", directoryPath)
     /\ dom' = SetBox(dom, pos, <<Div("loading")>>)
     /\ tasks' = Append(Detach(tasks, pos),
                        DomTask("refresh", directoryPath, "listDir", store.rootDirectory, pos,
                                <<>>, {}))
     /\ fetches' = [fetches EXCEPT ![directoryPath] = @ + 1]
     /\ UNCHANGED <<expandedFolders, rootItems, loading, folders>>
     /\ UNCHANGED <<rootDirectory, openFiles, activeFile, startup, restarts, impl, scope>>
     /\ UNCHANGED fsVars
     /\ UNCHANGED viewVars

\* refreshFileTree from the listing's response
FTM_refreshFileTree_listed(i) ==
  \E result \in Listings(tasks[i]) : Listed_answered(i, result)

\* renderDirectory from the response of the listing of an expanded folder
\* to the next await or the end of the handler's rendering
FTM_renderDirectory_listed(i) ==
  \E result \in Listings(tasks[i]) :
    LET t == tasks[i]
        r == Resume(t.frames, result, expandedFolders)
    IN /\ impl = "legacy"
       /\ t.frames # <<>>
       /\ evt' = Resumed
       /\ IF r.frames # <<>>
            THEN /\ fetches[Listed(r.frames)] < MaxFetches
                 /\ tasks' = Descend(t, tasks, i, r.frames)
                 /\ fetches' = [fetches EXCEPT ![Listed(r.frames)] = @ + 1]
                 /\ UNCHANGED dom
            ELSE /\ dom' = IF t.flag THEN SetBox(dom, t.at, BoxOf(dom, t.at) \o r.built)
                           ELSE dom
                 /\ tasks' = After(t, tasks, i, expandedFolders)
                 /\ UNCHANGED fetches
       /\ UNCHANGED <<expandedFolders, rootItems, loading, folders>>
       /\ UNCHANGED <<rootDirectory, openFiles, activeFile, startup, restarts, impl, scope>>
       /\ UNCHANGED fsVars
       /\ UNCHANGED viewVars

NextLegacyTree ==
  \/ \E d \in scope.dirs : FTM_loadDirectory(d)
  \/ \E i \in Waiting("loadExpanded", "getExpandedFolders") : FTM_loadExpandedFolders(i)
  \/ \E i \in Waiting("load", "setRootDirectory") : FTM_loadDirectory_saved(i)
  \/ \E i \in Waiting("load", "listDir") : FTM_loadDirectory_listed(i)
  \/ \E p \in scope.folders : FTM_handleFolderToggle(p)
  \/ \E i \in Waiting("toggle", "listDir") : FTM_handleFolderToggle_listed(i)
  \/ \E i \in Waiting("toggle", "setExpandedFolders") : FTM_saveExpandedFolders(i)
  \/ \E p \in scope.folders : FTM_refreshFileTree(p)
  \/ \E i \in Waiting("refresh", "listDir") : FTM_refreshFileTree_listed(i)
  \/ \E i \in WaitingFor("listDir") : FTM_renderDirectory_listed(i)

\* a directory is deleted by another program
RemoveDirectory(d) ==
  /\ d \in disk.dirs
  /\ ChildNames(disk, d) = {}
  /\ evt' = Event("removed", d)
  /\ disk' = [disk EXCEPT !.dirs = @ \ {d}]
  /\ UNCHANGED treeVars
  /\ UNCHANGED <<rootDirectory, openFiles, activeFile, tasks, startup, restarts, impl, scope>>
  /\ UNCHANGED <<store, req, res, fsCalls, accepted, saves>>
  /\ UNCHANGED viewVars

NextReactTree ==
  \/ \E d \in scope.dirs : FileTree_selectDirectory(d)
  \/ \E i \in WaitingFor("getExpandedFolders") : FileTree_loadExpandedFolders(i)
  \/ \E i \in Waiting("loadRoot", "listDir") : FileTree_loadRootDirectory(i)
  \/ \E p \in scope.folders : ToggleFolder(p)
  \/ \E i \in WaitingFor("setExpandedFolders") : SetConfig_expandedFolders(i)
  \/ \E i \in Waiting("loadChildren", "listDir") : FolderItem_loadChildren(i)

\* a first launch on an empty config store, no root selected yet
InitTree ==
  /\ store = EmptyStore
  /\ disk = InitialDisk
  /\ req = Idle
  /\ res = Success
  /\ fsCalls = <<>>
  /\ accepted = {}
  /\ saves = 0
  /\ impl \in Impls
  /\ scope \in TreeScopes
  /\ tasks = <<>>
  /\ InitRenderer

NextTree ==
  \/ NextReactTree
  \/ NextLegacyTree
  \/ \E d \in scope.removes : RemoveDirectory(d)

SpecTree == InitTree /\ [][NextTree]_vars

\* ===================================================================
\* Claims about the main-process handlers (SpecFs)
\* ===================================================================

FsOps == {"fs:getDirectoryContents", "fs:readFile", "fs:saveFile"}

GuardErrors == {ErrNoRoot, ErrTraversal}

\* containment as the specification defines it: the normalized path is the
\* normalized root, or continues it at a separator boundary
ContainedIn(p, root) ==
  LET n == normalize(p)
      r == normalize(root)
  IN \/ n = r
     \/ IF r[Len(r)] = SEP THEN StartsWith(n, r) ELSE StartsWith(n, r \o <<SEP>>)

\* the normalized path has the root as a string prefix, is not the root
\* and does not continue it with a separator
SiblingPrefix(p, root) ==
  LET n == normalize(p)
      r == normalize(root)
  IN /\ r[Len(r)] # SEP
     /\ StartsWith(n, r)
     /\ n # r
     /\ n[Len(r) + 1] # SEP

HasDotSegment(p) == \E i \in 1..Len(Split(p)) : Split(p)[i] \in {DOT, DOTDOT}

\* ------------------------------------------------ the sort of a listing
\* The entries fs.readdir and fs.stat give for a directory, in any order
\* and of either kind, sorted by the handler's contents.sort and then by
\* the file tree's sortItems.

SortNames == {<<"a">>, <<"A">>, <<"b">>, <<"B">>}

Entry(name, isDirectory) ==
  [name |-> name, path |-> Child(P_data, name), isDirectory |-> isDirectory]

\* the lists of at most n entries with different names
RECURSIVE Unsorted(_, _)
Unsorted(names, n) ==
  IF n = 0 THEN {<<>>}
  ELSE {<<>>} \cup UNION {{<<Entry(name, d)>> \o rest : rest \in Unsorted(names \ {name}, n - 1),
                                                     d \in BOOLEAN} : name \in names}

InitSort ==
  /\ store = [EmptyStore EXCEPT !.rootDirectory = P_data]
  /\ disk = InitialDisk
  /\ req = Idle
  /\ \E input \in Unsorted(SortNames, MaxEntries) : res = [Success EXCEPT !.contents = input]
  /\ fsCalls = <<>>
  /\ accepted = {P_data}
  /\ saves = 0
  /\ impl = "react"
  /\ scope = NoScope
  /\ tasks = <<>>
  /\ InitRenderer

\* contents.sort(...) in the handler, then sortItems(result.contents) in
\* FileTree.loadRootDirectory
ListingSorted ==
  /\ req.op = "idle"
  /\ req' = Request("fs:getDirectoryContents", P_data, "")
  /\ rootItems' = sortItems(SortContents(res.contents))
  /\ UNCHANGED <<store, disk, res, fsCalls, accepted, saves>>
  /\ UNCHANGED wsVars
  /\ UNCHANGED <<expandedFolders, loading, folders, dom, fetches>>
  /\ UNCHANGED viewVars

NextSort == ListingSorted

SpecSort == InitSort /\ [][NextSort]_vars

\* C1: with stored root R, an fs handler rejects a candidate whose
\* normalized form merely has R as a string prefix (R = /data,
\* P = /data2/x) with the path-traversal error, and does not reject a
\* candidate contained in R (P = /data/sub/a).
C1_SiblingPrefixRejected ==
  (req.op \in FsOps /\ store.rootDirectory # Null) =>
     /\ SiblingPrefix(req.path, store.rootDirectory) => res.error = ErrTraversal
     /\ ContainedIn(req.path, store.rootDirectory) => res.error # ErrTraversal

\* C2: in every step in which an fs handler answers a request whose path
\* fails the guard, or with no root stored, the handler returns the guard's
\* error, has made no filesystem call and leaves the disk as it was.
C2_GuardBeforeIO ==
  [][(/\ req'.op \in FsOps
      /\ req.op = "idle"
      /\ \/ store.rootDirectory = Null
         \/ ~GuardPasses(req'.path, store.rootDirectory))
     => (/\ res'.error \in GuardErrors
         /\ fsCalls' = <<>>
         /\ disk' = disk)]_vars

\* C2 witness: a save outside a stored root was answered with the
\* path-traversal error (and a save inside one did reach the disk).
C2_Witness ==
  /\ req.op = "fs:saveFile"
  /\ store.rootDirectory # Null
  /\ res.error = ErrTraversal
  /\ fsCalls = <<>>

\* C3: the stored rootDirectory is unset or a directory that the folder
\* picker returned and the write probe accepted.
C3_RootOnlyFromPicker ==
  store.rootDirectory = Null \/ store.rootDirectory \in accepted

\* C4: an fs handler rejects with the path-traversal error every candidate
\* with "." or ".." segments that begins with the root and a separator
\* textually and whose resolved form is not contained in the root.
C4_ResolvesOutsideRejected ==
  (/\ req.op \in FsOps
   /\ store.rootDirectory # Null
   /\ HasDotSegment(req.path)
   /\ StartsWith(req.path, store.rootDirectory \o <<SEP>>)
   /\ ~ContainedIn(req.path, store.rootDirectory))
  => res.error = ErrTraversal

\* ===================================================================
\* Claims about the workspace (SpecWs)
\* ===================================================================

\* the number of entries of the open-file list with path p
Count(files, p) == Cardinality({i \in 1..Len(files) : files[i].path = p})

\* C5: the open-file list never holds two entries with the same path, also
\* when a second openFile(X) is issued before the readFile of the first
\* has been answered.
C5_UniqueOpenFiles ==
  \A i, j \in 1..Len(openFiles) : openFiles[i].path = openFiles[j].path => i = j

\* C6: in every state the active file is null or the path of an entry of
\* the open-file list.
C6_ActiveFileIsOpen ==
  activeFile = Null \/ Count(openFiles, activeFile) > 0

\* the requests for the content of p that are awaiting their answer
ReadsOf(tk, p) == Cardinality({i \in 1..Len(tk) : tk[i].pc = "readFile" /\ tk[i].path = p})

\* p is a file of the workspace root (the legacy manager has no root of its own)
InWorkspace(p) ==
  impl = "react" => (rootDirectory # Null /\ ContainedIn(p, rootDirectory))

\* C7: openFile(X) called with nothing else in flight.  When X is not
\* open the call issues exactly one readFile(X) and leaves the list alone,
\* and the answer appends exactly one entry for X at the end and makes X
\* active.  When X is open (the first call has completed) the call issues
\* no readFile, leaves the list and its order unchanged, and makes X active.
C7_IdempotentOpen ==
  [][\A f \in WsFiles :
       /\ (evt' = Event("openFile", f) /\ tasks = <<>> /\ InWorkspace(f)
            /\ Count(openFiles, f) = 0)
          => (openFiles' = openFiles /\ ReadsOf(tasks', f) = 1)
       /\ (tasks # <<>> /\ tasks[1].kind = "open" /\ tasks[1].pc = "readFile"
            /\ tasks[1].path = f /\ Len(tasks) = 1
            /\ Count(openFiles, f) = 0 /\ ReadsOf(tasks', f) = 0 /\ restarts' = restarts)
          => \/ openFiles' = openFiles
             \/ (/\ Len(openFiles') = Len(openFiles) + 1
                 /\ SubSeq(openFiles', 1, Len(openFiles)) = openFiles
                 /\ openFiles'[Len(openFiles')].path = f
                 /\ activeFile' = f)
       /\ (evt' = Event("openFile", f) /\ tasks = <<>> /\ InWorkspace(f)
            /\ Count(openFiles, f) = 1)
          => (openFiles' = openFiles /\ ReadsOf(tasks', f) = 0 /\ activeFile' = f)
    ]_vars

\* C7 witness: with /data/a and /data/b open in that order, openFile of
\* /data/a has just been called again: one entry for it, same order, active.
C7_Witness ==
  /\ evt = Event("openFile", P_data_a)
  /\ PathsOf(openFiles) = <<P_data_a, P_data_b>>
  /\ activeFile = P_data_a
  /\ ReadsOf(tasks, P_data_a) = 0

\* C8: closeFile(p) removes the entries of p from the open-file list and
\* keeps the others in their order; when p was the active file the new
\* active file is the first entry of the list that remains, or null when
\* nothing remains.
C8_DeterministicClose ==
  [][\A p \in WsFiles :
       evt' = Event("closeFile", p)
       => /\ openFiles' = SelectSeq(openFiles, LAMBDA f : f.path # p)
          /\ activeFile = p
             => activeFile' = IF Len(openFiles') > 0 THEN openFiles'[1].path ELSE Null
    ]_vars

\* C8 witness: /data/a, /data/b, /data/sub/a were open in that order with
\* /data/b active; /data/b has just been closed and /data/a is active.
C8_Witness ==
  /\ evt = Event("closeFile", P_data_b)
  /\ PathsOf(openFiles) = <<P_data_a, P_data_sub_a>>
  /\ activeFile = P_data_a
  /\ \E i \in 1..Len(tasks) : tasks[i].kind = "close" /\ tasks[i].path = P_data_b
                               /\ tasks[i].val = P_data_a

\* C9: in a step that changes the renderer's root directory from one
\* folder to another, every open file not contained in the new root is
\* dropped: afterwards every entry of the open-file list, and the active
\* file if there is one, is contained in the new root.
C9_RootChangePrunes ==
  [][(rootDirectory # Null /\ rootDirectory' # Null /\ rootDirectory' # rootDirectory)
     => /\ \A k \in 1..Len(openFiles') : ContainedIn(openFiles'[k].path, rootDirectory')
        /\ activeFile' = Null \/ ContainedIn(activeFile', rootDirectory')
    ]_vars

\* C10: the startup restore puts into the (still empty) open-file list
\* exactly the persisted openFiles that are contained, component-wise, in
\* the root, in their persisted order; the legacy manager's restore opens
\* no file that is not contained in the root.
C10_RestoreFiltered ==
  [][/\ (impl = "react" /\ startup.pc = "getOpenFiles" /\ startup'.pc # "getOpenFiles"
         /\ evt' = Resumed /\ openFiles = <<>>)
        => PathsOf(openFiles') =
             SelectSeq(store.openFiles, LAMBDA p : ContainedIn(p, rootDirectory))
     /\ \A i \in 1..Len(tasks') :
          tasks'[i].kind = "restore" => ContainedIn(tasks'[i].path, startup'.rootDir)
    ]_vars

\* the files the restore has brought back when it asks for the persisted
\* active file: the filtered list (React), the list its loop has built
\* (legacy manager)
Restored == IF impl = "react" THEN startup.validFiles ELSE PathsOf(openFiles)

\* C11: the step that ends the startup restore makes the persisted
\* activeFile active when it is among the restored files, else the first
\* restored file; a restore that brings back no file leaves the active
\* file alone; and no earlier step of the restore changes the active file.
C11_RestoreActivation ==
  [][/\ (startup.pc = "getActiveFile" /\ startup'.pc = "done")
        => activeFile' =
             IF store.activeFile # Null
                /\ \E k \in 1..Len(Restored) : Restored[k] = store.activeFile
               THEN store.activeFile
             ELSE IF Len(Restored) > 0 THEN Restored[1]
             ELSE activeFile
     /\ (startup.pc # "getActiveFile" /\ startup.pc # "done" /\ restarts' = restarts
         /\ evt' = Resumed
         /\ (startup' # startup \/ (tasks # <<>> /\ \E i \in 1..Len(tasks) :
                                      tasks[i].kind = "restore" /\ tasks' # tasks
                                      /\ (i > Len(tasks') \/ tasks'[i] # tasks[i])
                                      /\ \A j \in 1..Len(tasks) : j # i =>
                                            tasks[j].kind # "open" /\ tasks[j].kind # "close"
                                            /\ tasks[j].kind # "activate")))
        => activeFile' = activeFile
    ]_vars

\* C11 witness: after a restart the restore has ended with one surviving
\* file; the persisted active file was filtered out, so the first
\* surviving file is active
C11_Witness ==
  /\ restarts = 1
  /\ startup.pc = "done"
  /\ evt = Resumed
  /\ rootDirectory = P_data2
  /\ PathsOf(openFiles) = <<P_data2_x>>
  /\ store.activeFile = P_data_a
  /\ activeFile = P_data2_x

\* ===================================================================
\* Claims about the file tree (SpecTree)
\* ===================================================================

\* the last operation is one the user asked for, not a continuation
UserStep(e) == e.op \in {"toggle", "selectDirectory", "refresh", "loadDirectory"}

\* a listing's result (items, the empty-folder note or an error) is
\* shown in the legacy folder item of p
Loaded(p) ==
  LET pos == QuerySelector(dom, p)
  IN /\ pos # <<>>
     /\ NodeAt(dom, pos).nodes # <<>>
     /\ NodeAt(dom, pos).nodes # <<Div("loading")>>

\* C12: expanding a folder requests its listing once, and while the
\* folder's node exists no later step requests it again, whatever the
\* listing returned: a step that leaves the root alone requests at most
\* one listing per folder, none for a React FolderItem that has already
\* requested one, and a toggle requests none for a legacy folder item
\* that shows a listing's result.
C12_NoRedundantFetch ==
  [][\A p \in TreeFolders :
       rootDirectory' = rootDirectory
       => /\ fetches'[p] <= fetches[p] + 1
          /\ (fetches'[p] > fetches[p] /\ impl = "react" /\ folders[p].mounted)
             => fetches[p] = 0
          /\ (fetches'[p] > fetches[p] /\ impl = "legacy" /\ evt' = Event("toggle", p))
             => ~Loaded(p)
    ]_vars

\* the getDirectoryContents requests in flight for the node of folder p: the
\* listings started by its expansion whose answer the renderer still awaits
InFlightIn(tk, p) ==
  {i \in 1..Len(tk) : /\ tk[i].pc = "listDir"
                      /\ tk[i].path = p
                      /\ tk[i].kind \in {"toggle", "loadChildren"}
                      /\ tk[i].flag}

InFlight(p) == InFlightIn(tasks, p)

\* C13: per-node request coalescing.  In every reachable state at most one
\* listing is in flight for a folder's node; an expand that reaches the node
\* while it is loading starts no second one.
C13_OneFetchInFlight == \A p \in TreeFolders : Cardinality(InFlight(p)) <= 1

\* C14: a folder whose listing has failed is not listed again unless the
\* user asks for it: a step that requests a listing of a folder shown in
\* Error is a step of a user operation (a toggle, a root selection, a
\* refresh), never the continuation of a response.
C14_NoImplicitRetry ==
  [][\A p \in TreeFolders :
       (fetches'[p] > fetches[p] /\ folders'[p].mounted /\ folders'[p].error # NoError)
       => UserStep(evt')
    ]_vars

\* what the legacy tree shows inside the folder item of p
Box(d, p) == IF QuerySelector(d, p) = <<>> THEN <<>> ELSE NodeAt(d, QuerySelector(d, p)).nodes

\* C15: a listing's response that arrives while its folder is collapsed is
\* discarded: the continuation step that takes the response leaves the
\* children and the error of the collapsed folder as they were (the state
\* of the FolderItem in React, the folder's container in the legacy tree).
C15_LateResponseDiscarded ==
  [][\A p \in TreeFolders :
       (/\ evt' = Resumed
        /\ p \notin expandedFolders
        /\ Cardinality(InFlightIn(tasks', p)) < Cardinality(InFlight(p)))
       => /\ (impl = "react" /\ folders[p].mounted /\ folders'[p].mounted)
             => /\ folders'[p].children = folders[p].children
                /\ folders'[p].error = folders[p].error
          /\ (impl = "legacy" /\ QuerySelector(dom, p) # <<>> /\ QuerySelector(dom', p) # <<>>)
             => Box(dom', p) = Box(dom, p)
    ]_vars

\* C17: refreshFileTree(path) of a folder lists that path and no other: a
\* getDirectoryContents request sent by a refresh whose result is still
\* to be shown is a request for the refreshed folder, so the folders
\* below it are not listed (and not rebuilt) by the refresh.
C17_RefreshListsItsPath ==
  \A i \in 1..Len(tasks) :
    (tasks[i].kind = "refresh" /\ tasks[i].pc = "listDir" /\ tasks[i].flag)
    => tasks[i].path = NodeAt(dom, tasks[i].at).path

\* C16: once no listing of a root is pending, the root items shown are
\* the listing of the current root directory.
C16_RootItemsOfCurrentRoot ==
  (impl = "react" /\ rootDirectory # Null
   /\ \A i \in 1..Len(tasks) : tasks[i].kind # "loadRoot")
  => \A k \in 1..Len(rootItems) : Parent(rootItems[k].path) = rootDirectory

\* a setConfig('expandedFolders', ...) has been sent and not yet answered
WriteOutstanding == \E i \in 1..Len(tasks) : tasks[i].pc = "setExpandedFolders"

\* C18: expansion persistence.  Every toggle sends a write of
\* expandedFolders at once, so whenever no such write is outstanding (and
\* the saved set has been loaded) the stored expandedFolders is the set
\* of expanded folders in memory.
C18_ExpansionPersisted ==
  (/\ rootDirectory # Null
   /\ ~WriteOutstanding
   /\ \A i \in 1..Len(tasks) : tasks[i].pc # "getExpandedFolders")
  => store.expandedFolders = expandedFolders

\* the close handlers that have not returned yet
Closing(tk) == {i \in 1..Len(tk) : tk[i].kind = "close"}

\* C19: close is persisted.  When a closeFile that ran alone returns, the
\* stored openFiles is the list of open paths in memory and the stored
\* activeFile is the active file in memory: null after the last open
\* file was closed.
C19_ClosePersisted ==
  [][(/\ Closing(tasks) # {}
      /\ UserTasks = 1
      /\ Closing(tasks') = {}
      /\ restarts' = restarts)
     => /\ store'.openFiles = PathsOf(openFiles')
        /\ store'.activeFile = activeFile'
    ]_vars

\* the open handlers that have not returned yet
Opening(tk) == {i \in 1..Len(tk) : tk[i].kind = "open"}

\* C20: open is persisted consistently.  When an openFile that has added
\* its file returns and no other handler is running, the stored openFiles is the list of open
\* paths in memory, whatever was opened or closed while its readFile was
\* pending.
C20_OpenPersisted ==
  [][(/\ Cardinality(Opening(tasks')) < Cardinality(Opening(tasks))
      /\ \A i \in Opening(tasks) : IsOpen(openFiles', tasks[i].path)
      /\ Len(tasks') = 0
      /\ restarts' = restarts)
     => store'.openFiles = PathsOf(openFiles')
    ]_vars

\* a setConfig('activeFile', v) has been sent and not yet answered
ActiveFileWrites(tk, v) ==
  {i \in 1..Len(tk) : tk[i].pc \in {"setActiveFile", "activateFile"} /\ tk[i].val = v}

\* C21: activation is persisted.  A step in which openFile on an open file
\* or a click on a tab changes the active file sends a write of the new
\* value to the stored activeFile.
C21_ActivationPersisted ==
  [][(activeFile' # activeFile /\ evt'.op \in {"openFile", "setActiveFile"})
     => ActiveFileWrites(tasks', activeFile') # {}
    ]_vars

Occurrences(list, e) == Cardinality({i \in 1..Len(list) : list[i] = e})

\* name a comes after name b when letter case is ignored
RECURSIVE ComesAfter(_, _)
ComesAfter(a, b) ==
  IF Len(a) = 0 THEN FALSE
  ELSE IF Len(b) = 0 THEN TRUE
  ELSE IF Lower(a[1]) = Lower(b[1]) THEN ComesAfter(Tail(a), Tail(b))
  ELSE CharRank(a[1]) > CharRank(b[1])

\* C24: listing order.  The sorted listing is a permutation of the
\* directory's entries in which every directory precedes every file and,
\* among the directories and among the files, names are in non-decreasing
\* order when letter case is ignored.
C24_ListingOrder ==
  req.op = "fs:getDirectoryContents" /\ scope = NoScope /\ rootItems # <<>>
  => /\ Len(rootItems) = Len(res.contents)
     /\ \A k \in 1..Len(rootItems) :
          Occurrences(rootItems, rootItems[k]) = Occurrences(res.contents, rootItems[k])
     /\ \A i, j \in 1..Len(rootItems) :
          i < j => /\ ~(rootItems[j].isDirectory /\ ~rootItems[i].isDirectory)
                   /\ rootItems[i].isDirectory = rootItems[j].isDirectory
                      => ~ComesAfter(rootItems[i].name, rootItems[j].name)

\* C24 witness: the entries b, A/ and a were listed as A/, a, b.
C24_Witness ==
  /\ res.contents = <<Entry(<<"b">>, FALSE), Entry(<<"A">>, TRUE), Entry(<<"a">>, FALSE)>>
  /\ rootItems = <<Entry(<<"A">>, TRUE), Entry(<<"a">>, FALSE), Entry(<<"b">>, FALSE)>>

C26_NodesRetained ==
  [][\A p \in TreeFolders :
       (/\ impl = "react"
        /\ Len(folders[p].children) > 0
        /\ evt'.op = "toggle" /\ evt'.path # p)
       => /\ folders'[p].children = folders[p].children
          /\ fetches'[p] = fetches[p]
    ]_vars

C27_RestoredFilesRead ==
  startup.pc = "done" =>
    \A k \in 1..Len(openFiles) : openFiles[k].loaded

\* C30: a failed open leaves the workspace unchanged.  The step in which
\* an open gets an error from readFile, and the step in which the React
\* open is rejected because there is no root or the path is not under it,
\* leave the open-file list, the active file and the persisted openFiles
\* and activeFile as they were.
C30_FailedOpenChangesNothing ==
  [][(\/ \E p \in WsFiles :
           /\ FsReadFile(store, disk, p).res.error # NoError
           /\ evt' = Resumed
           /\ ReadsOf(tasks', p) < ReadsOf(tasks, p)
      \/ /\ impl = "react"
         /\ evt'.op = "openFile"
         /\ rootDirectory = Null \/ ~InRootByPrefix(evt'.path, rootDirectory))
     => /\ openFiles' = openFiles
        /\ activeFile' = activeFile
        /\ store'.openFiles = store.openFiles
        /\ store'.activeFile = store.activeFile
    ]_vars

\* C30 witness: with /data2/x open and active under the root /data2, the
\* React open of /data/a has been rejected by the root check.
C30_Witness ==
  /\ impl = "react"
  /\ evt = Event("openFile", P_data_a)
  /\ rootDirectory = P_data2
  /\ PathsOf(openFiles) = <<P_data2_x>>
  /\ activeFile = P_data2_x
  /\ store.openFiles = <<P_data2_x>>

\* C22: markModified.  An edit of open file p leaves the modified flag of
\* p's entry of the open-file list true, whether it was false (the first
\* edit) or already true (a further edit), and leaves the flag of every
\* other open file as it was.
C22_MarkModified ==
  [][\A p \in WsFiles :
       (evt'.op = "edit" /\ evt'.path = p /\ IsOpen(openFiles, p))
       => /\ PathsOf(openFiles') = PathsOf(openFiles)
          /\ FileAt(openFiles', p).modified
          /\ \A k \in 1..Len(openFiles) :
               openFiles[k].path # p => openFiles'[k].modified = openFiles[k].modified
    ]_vars

\* C28: edits mutate the OpenFile.  While a file is open, the text last
\* typed into its editor is the content of its entry of the open-file
\* list, and whenever the file is the active one its editor shows that
\* text (also after another file was made active and this one again).
C28_EditsKept ==
  \A p \in WsFiles :
    (IsOpen(openFiles, p) /\ typed[p] # NotTyped)
    => /\ FileAt(openFiles, p).content = typed[p]
       /\ activeFile = p => (editors[p].mounted /\ editors[p].content = typed[p])

====
